---------------------------- MODULE Spec2Model ----------------------------
(***************************************************************************)
(* A model of the shell of src/src: the lexer (args.rs, utils.rs), the     *)
(* output writer (writer.rs), the command dispatcher (command.rs), the     *)
(* pipeline executor of main (main.rs) and the raw-mode line editor        *)
(* (input.rs, main.rs).                                                    *)
(*                                                                         *)
(* Characters are Unicode code points and bytes are 0..255, both written   *)
(* as numbers; a Rust String is a sequence of code points, a Vec<u8> a     *)
(* sequence of bytes.  Option<T> is a sequence of length 0 (None) or 1     *)
(* (Some).                                                                 *)
(***************************************************************************)
EXTENDS Integers, Sequences, FiniteSets, TLC

(***************************************************************************)
(* Bounds of the model.                                                    *)
(***************************************************************************)
\* most stages typed on one line in the shell specification
MaxStages == 3
\* prompts (lines read) per run of the shell specification
MaxPrompts == 1
\* longest payload and longest initial file content in the writer specification
MaxData == 2
\* bytes read by one call of read_input in the editor specification
MaxKeys == 4
\* characters of the line parse_args scans in the lexer specification
MaxLineLen == 5
\* tokens of the line in the token specification
MaxTokens == 4
\* calls of insert in the trie specification
MaxInserts == 3
\* entries of the history in the history specification
MaxHistory == 3
\* bytes a streamed child writes on each of its pipes
MaxPipe == 2
\* reads of a worker that return 0 bytes, in the streaming specification
MaxEofReads == 2
MaxInputKeys == 5

(***************************************************************************)
(* Characters.                                                             *)
(***************************************************************************)
\* args.rs:4-7
SPACE == 32
SINGLE_QUOTE == 39
DOUBLE_QUOTE == 34
ESCAPE == 92
\* the line feed println!/eprintln! add and writer.rs:71 writes
LF == 10

\* code points of the other characters the inputs are spelled with
CH == [a |-> 97, b |-> 98, c |-> 99, e |-> 101, f |-> 102, t |-> 116,
       x |-> 120, y |-> 121, dollar |-> 36, gt |-> 62,
       bar |-> 124, one |-> 49, two |-> 50, slash |-> 47, tilde |-> 126,
       colon |-> 58, plus |-> 43, zero |-> 48, nine |-> 57, e_acute |-> 233,
       bad |-> 255, replacement |-> 65533]

(***************************************************************************)
(* Sequence helpers.                                                       *)
(***************************************************************************)
None == <<>>
Some(v) == <<v>>
IsSome(o) == Len(o) = 1
Unwrap(o) == o[1]

RECURSIVE Concat(_)
\* the concatenation of a sequence of sequences
Concat(ss) ==
  IF ss = <<>> THEN <<>> ELSE Head(ss) \o Concat(Tail(ss))

RECURSIVE Join(_, _)
\* [String]::join(sep)
Join(ss, sep) ==
  IF ss = <<>> THEN <<>>
  ELSE IF Len(ss) = 1 THEN ss[1]
  ELSE ss[1] \o sep \o Join(Tail(ss), sep)

IsPrefix(p, s) == Len(p) <= Len(s) /\ SubSeq(s, 1, Len(p)) = p
\* the elements of a Vec
Range(s) == {s[i] : i \in DOMAIN s}
IsSuffix(t, s) == Len(t) <= Len(s) /\ SubSeq(s, Len(s) - Len(t) + 1, Len(s)) = t
SeqsUpTo(S, n) == UNION {[1..k -> S] : k \in 0..n}

\* char::is_whitespace on the characters of the model (ASCII white space)
IsWhitespace(ch) == ch \in {9, 10, 11, 12, 13, 32}

RECURSIVE TrimStart(_)
TrimStart(s) ==
  IF s # <<>> /\ IsWhitespace(Head(s)) THEN TrimStart(Tail(s)) ELSE s

RECURSIVE TrimEnd(_)
TrimEnd(s) ==
  IF s # <<>> /\ IsWhitespace(s[Len(s)]) THEN TrimEnd(SubSeq(s, 1, Len(s) - 1)) ELSE s

\* str::trim
Trim(s) == TrimEnd(TrimStart(s))

(***************************************************************************)
(* String literals of the source.                                          *)
(***************************************************************************)
\* the string literals of the source, as code points:
\*   bar            "|"
\*   gt             ">"
\*   gt1            "1>"
\*   gtgt           ">>"
\*   gtgt1          "1>>"
\*   gt2            "2>"
\*   gtgt2          "2>>"
\*   echo           "echo"
\*   exit           "exit"
\*   type           "type"
\*   pwd            "pwd"
\*   cd             "cd"
\*   not_found      ": command not found"
\*   exit_invalid   "exit: invalid code"
\*   exit_expected  "exit: expected 1 arg at most"
\*   type_not_found ": not found"
\*   is             " is "
\*   is_builtin     " is a shell builtin"
\*   type_expected  "type: expected 1 arg"
\*   failed         ": failed to execute"
\*   cd_expected    "cd: expected 1 arg at most"
\*   cd_prefix      "cd: "
\*   cd_nosuch      ": No such file or directory"
\*   pwd_expected   "pwd: expected 0 args"
\*   tilde          "~"
\*   error_opening  "Error opening file "
LIT ==
  [bar |-> <<124>>,
   gt |-> <<62>>,
   gt1 |-> <<49, 62>>,
   gtgt |-> <<62, 62>>,
   gtgt1 |-> <<49, 62, 62>>,
   gt2 |-> <<50, 62>>,
   gtgt2 |-> <<50, 62, 62>>,
   echo |-> <<101, 99, 104, 111>>,
   exit |-> <<101, 120, 105, 116>>,
   type |-> <<116, 121, 112, 101>>,
   pwd |-> <<112, 119, 100>>,
   cd |-> <<99, 100>>,
   not_found |-> <<58, 32, 99, 111, 109, 109, 97, 110, 100, 32, 110, 111, 116, 32, 102, 111, 117, 110, 100>>,
   exit_invalid |-> <<101, 120, 105, 116, 58, 32, 105, 110, 118, 97, 108, 105, 100, 32, 99, 111, 100, 101>>,
   exit_expected |-> <<101, 120, 105, 116, 58, 32, 101, 120, 112, 101, 99, 116, 101, 100, 32, 49, 32, 97, 114, 103, 32, 97, 116, 32, 109, 111, 115, 116>>,
   type_not_found |-> <<58, 32, 110, 111, 116, 32, 102, 111, 117, 110, 100>>,
   is |-> <<32, 105, 115, 32>>,
   is_builtin |-> <<32, 105, 115, 32, 97, 32, 115, 104, 101, 108, 108, 32, 98, 117, 105, 108, 116, 105, 110>>,
   type_expected |-> <<116, 121, 112, 101, 58, 32, 101, 120, 112, 101, 99, 116, 101, 100, 32, 49, 32, 97, 114, 103>>,
   failed |-> <<58, 32, 102, 97, 105, 108, 101, 100, 32, 116, 111, 32, 101, 120, 101, 99, 117, 116, 101>>,
   cd_expected |-> <<99, 100, 58, 32, 101, 120, 112, 101, 99, 116, 101, 100, 32, 49, 32, 97, 114, 103, 32, 97, 116, 32, 109, 111, 115, 116>>,
   cd_prefix |-> <<99, 100, 58, 32>>,
   cd_nosuch |-> <<58, 32, 78, 111, 32, 115, 117, 99, 104, 32, 102, 105, 108, 101, 32, 111, 114, 32, 100, 105, 114, 101, 99, 116, 111, 114, 121>>,
   pwd_expected |-> <<112, 119, 100, 58, 32, 101, 120, 112, 101, 99, 116, 101, 100, 32, 48, 32, 97, 114, 103, 115>>,
   tilde |-> <<126>>,
   error_opening |-> <<69, 114, 114, 111, 114, 32, 111, 112, 101, 110, 105, 110, 103, 32, 102, 105, 108, 101, 32>>]

(***************************************************************************)
(* Redirection (writer.rs:22-29).                                          *)
(***************************************************************************)
RedirNone == [kind |-> "None", file_path |-> <<>>, append |-> FALSE]
RedirStdout(p, a) == [kind |-> "Stdout", file_path |-> p, append |-> a]
RedirStderr(p, a) == [kind |-> "Stderr", file_path |-> p, append |-> a]

(***************************************************************************)
(* The lexer: parse_args (args.rs:71-159).                                 *)
(***************************************************************************)
\* the scanner's locals before the first character (args.rs:72-76)
ScanInit == [args |-> <<>>, arg |-> <<>>, wait_for |-> "Space", is_escaping |-> FALSE]

\* the body of `for char in full_command.chars()` (args.rs:78-146)
ScanStep(st, ch) ==
  IF st.is_escaping THEN
    [st EXCEPT
       !.arg = CASE st.wait_for = "Space" -> Append(@, ch)
                 [] st.wait_for = "SingleQuote" -> @ \o <<ESCAPE, ch>>
                 [] st.wait_for = "DoubleQuote" ->
                      IF ch \in {ESCAPE, DOUBLE_QUOTE} THEN Append(@, ch)
                      ELSE @ \o <<ESCAPE, ch>>,
       !.is_escaping = FALSE]
  ELSE IF ch = SPACE THEN
    IF st.wait_for = "Space"
      THEN IF st.arg = <<>> THEN st
           ELSE [st EXCEPT !.args = Append(@, st.arg), !.arg = <<>>]
      ELSE [st EXCEPT !.arg = Append(@, SPACE)]
  ELSE IF ch = SINGLE_QUOTE THEN
    CASE st.wait_for = "Space" -> [st EXCEPT !.wait_for = "SingleQuote"]
      [] st.wait_for = "SingleQuote" -> [st EXCEPT !.wait_for = "Space"]
      [] st.wait_for = "DoubleQuote" -> [st EXCEPT !.arg = Append(@, SINGLE_QUOTE)]
  ELSE IF ch = DOUBLE_QUOTE THEN
    CASE st.wait_for = "Space" -> [st EXCEPT !.wait_for = "DoubleQuote"]
      [] st.wait_for = "DoubleQuote" -> [st EXCEPT !.wait_for = "Space"]
      [] st.wait_for = "SingleQuote" -> [st EXCEPT !.arg = Append(@, DOUBLE_QUOTE)]
  ELSE IF ch = ESCAPE THEN [st EXCEPT !.is_escaping = TRUE]
  ELSE [st EXCEPT !.arg = Append(@, ch)]

RECURSIVE ScanFrom(_, _)
\* the whole `for` loop, from scanner state st over the characters s
ScanFrom(st, s) ==
  IF s = <<>> THEN st ELSE ScanFrom(ScanStep(st, Head(s)), Tail(s))

\* ScanEnd without the commit of the last token
ScanEnd_NoCommit(st) == st.args

\* the commit after the loop (args.rs:148-150): the final token list
ScanEnd(st) == IF st.arg # <<>> THEN Append(st.args, st.arg) ELSE st.args

RECURSIVE SplitFrom(_, _, _, _)
\* the loop of split_vec_by_delimiter (utils.rs:76-85)
SplitFrom(vec, delimiter, result, current_group) ==
  IF vec = <<>> THEN
    \* utils.rs:88-92
    IF current_group # <<>> THEN Append(result, current_group) ELSE result
  ELSE IF Head(vec) = delimiter THEN
    IF current_group # <<>>
      THEN SplitFrom(Tail(vec), delimiter, Append(result, current_group), <<>>)
      ELSE SplitFrom(Tail(vec), delimiter, result, current_group)
  ELSE SplitFrom(Tail(vec), delimiter, result, Append(current_group, Head(vec)))

\* split_vec_by_delimiter with the delimiter splitting nothing
split_vec_by_delimiter_OneGroup(vec, delimiter) ==
  IF vec = <<>> THEN <<>> ELSE <<vec>>

\* utils.rs:72-93
split_vec_by_delimiter(vec, delimiter) == SplitFrom(vec, delimiter, <<>>, <<>>)

IsStdoutOp(t) == t \in {LIT.gt1, LIT.gt, LIT.gtgt1, LIT.gtgt}
IsStderrOp(t) == t \in {LIT.gt2, LIT.gtgt2}
IsAppendOp(t) == t \in {LIT.gtgt1, LIT.gtgt, LIT.gtgt2}
IsRedirOp(t) == IsStdoutOp(t) \/ IsStderrOp(t)

RECURSIVE ExtractFrom(_, _, _)
\* the loop of extract_redirection (args.rs:15-50); ok = FALSE is the panic
\* of args_iter.next().unwrap() on an operator that is the last token
ExtractFrom(rest, final_args, redirection) ==
  IF rest = <<>> THEN
    [ok |-> TRUE, final_args |-> final_args, redirection |-> redirection]
  ELSE IF IsRedirOp(Head(rest)) THEN
    IF Len(rest) < 2 THEN
      [ok |-> FALSE, final_args |-> final_args, redirection |-> redirection]
    ELSE IF IsStdoutOp(Head(rest)) THEN
      ExtractFrom(Tail(Tail(rest)), final_args,
                  RedirStdout(rest[2], IsAppendOp(Head(rest))))
    ELSE
      ExtractFrom(Tail(Tail(rest)), final_args,
                  RedirStderr(rest[2], IsAppendOp(Head(rest))))
  ELSE ExtractFrom(Tail(rest), Append(final_args, Head(rest)), redirection)

\* extract_redirection with every redirection truncating
extract_redirection_NeverAppends(args) ==
  [ExtractFrom(args, <<>>, RedirNone) EXCEPT !.redirection.append = FALSE]

\* args.rs:11-53
extract_redirection(args) == ExtractFrom(args, <<>>, RedirNone)

\* args.rs:152-158 on the token list: ok = FALSE when some stage's
\* extract_redirection panics, else the list of (argv, redirection)
StagesOf(tokens) ==
  LET groups == split_vec_by_delimiter(tokens, LIT.bar)
      ex == [i \in 1..Len(groups) |-> extract_redirection(groups[i])]
  IN  IF \E i \in 1..Len(groups) : ~ex[i].ok
        THEN [ok |-> FALSE, cmds |-> <<>>]
        ELSE [ok |-> TRUE,
              cmds |-> [i \in 1..Len(groups) |->
                          [args |-> ex[i].final_args,
                           redirection |-> ex[i].redirection]]]

\* parse_args on the line with its single quotes removed
parse_args_QuotesDropped(full_command) ==
  StagesOf(ScanEnd(ScanFrom(ScanInit,
                            SelectSeq(full_command, LAMBDA ch : ch # SINGLE_QUOTE))))

\* args.rs:71-159
parse_args(full_command) == StagesOf(ScanEnd(ScanFrom(ScanInit, full_command)))

(***************************************************************************)
(* UTF-8.  The bytes of the model are ASCII, the two-byte sequences        *)
(* (lead 0xC2..0xDF, continuation 0x80..0xBF) and 0xFF, which begins no    *)
(* sequence.                                                               *)
(***************************************************************************)
IsCont(b) == b >= 128 /\ b <= 191
IsLead2(b) == b >= 194 /\ b <= 223

\* the UTF-8 encoding of one code point (char::encode_utf8)
EncodeChar(cp) ==
  IF cp < 128 THEN <<cp>>
  ELSE IF cp < 2048 THEN <<192 + (cp \div 64), 128 + (cp % 64)>>
  ELSE <<224 + (cp \div 4096), 128 + ((cp \div 64) % 64), 128 + (cp % 64)>>

\* str::as_bytes: the bytes of a String
as_bytes(s) == Concat([i \in 1..Len(s) |-> EncodeChar(s[i])])

RECURSIVE from_utf8_lossy(_)
\* String::from_utf8_lossy: every byte that begins no well-formed sequence
\* becomes U+FFFD (CH.replacement)
from_utf8_lossy(buf) ==
  IF buf = <<>> THEN <<>>
  ELSE IF buf[1] < 128 THEN <<buf[1]>> \o from_utf8_lossy(Tail(buf))
  ELSE IF IsLead2(buf[1]) /\ Len(buf) >= 2 /\ IsCont(buf[2])
    THEN <<(buf[1] - 192) * 64 + (buf[2] - 128)>> \o from_utf8_lossy(Tail(Tail(buf)))
  ELSE <<CH.replacement>> \o from_utf8_lossy(Tail(buf))

RECURSIVE Utf8Valid(_)
\* whether String::from_utf8 returns Ok
Utf8Valid(buf) ==
  IF buf = <<>> THEN TRUE
  ELSE IF buf[1] < 128 THEN Utf8Valid(Tail(buf))
  ELSE IF IsLead2(buf[1]) /\ Len(buf) >= 2 /\ IsCont(buf[2])
    THEN Utf8Valid(Tail(Tail(buf)))
  ELSE FALSE

(***************************************************************************)
(* Files and the terminal.  A world is [fs, out, err]: fs maps a path to   *)
(* [kind, data] with kind "file" or "dir" (a path outside DOMAIN fs is a   *)
(* missing file of a writable directory); out and err are the bytes        *)
(* written to the terminal's stdout and stderr.                            *)
(***************************************************************************)
FileAt(fs, path) ==
  IF path \in DOMAIN fs THEN fs[path] ELSE [kind |-> "missing", data |-> <<>>]

PutFile(fs, path, data) ==
  [q \in DOMAIN fs \cup {path} |->
     IF q = path THEN [kind |-> "file", data |-> data] ELSE fs[q]]

\* whether OpenOptions::new().write(true).create(true).open(path) is Ok
CanOpen(fs, path) == FileAt(fs, path).kind # "dir"

\* OpenOptions ... .create(true).append(append).write(true).open(path) with
\* the handle dropped: creates a missing file, changes no content
\* (writer.rs:89-93, 133-137, 179-183, 216-220)
Touch(fs, path) ==
  IF CanOpen(fs, path) THEN PutFile(fs, path, FileAt(fs, path).data) ELSE fs

\* File::write_all(bytes) with the file position at pos
WriteAt(old, pos, bytes) ==
  SubSeq(old, 1, pos) \o bytes \o SubSeq(old, pos + Len(bytes) + 1, Len(old))

\* eprintln!("Error opening file {}", file_path)  (writer.rs:77, 121, 167, 204)
ErrorOpening(w, path) ==
  [w EXCEPT !.err = @ \o as_bytes(LIT.error_opening \o path) \o <<LF>>]

(***************************************************************************)
(* The output writer (writer.rs:42-226).  output and output_error return   *)
(* [w, written]; the string variants return the world.                     *)
(***************************************************************************)
\* the file after the Redirection::Stdout branch wrote `bytes` (writer.rs:61-75,
\* 105-119): opened without truncate, seek(SeekFrom::End(0)) gives file_size
\* and leaves the position at the end; `text` is what write!("\n{}") formats
StdoutFileWrite(old, append, bytes, text) ==
  LET file_size == Len(old)
  IN  IF append /\ file_size > 0
        THEN WriteAt(old, file_size, <<LF>> \o as_bytes(text))
        ELSE WriteAt(old, file_size, bytes)

\* the file after the Redirection::Stderr branch wrote `bytes` (writer.rs:158-165,
\* 195-202): opened without truncate and with no seek, so the position is 0
\* unless O_APPEND moves every write to the end
StderrFileWrite(old, append, bytes) ==
  IF append THEN WriteAt(old, Len(old), bytes) ELSE WriteAt(old, 0, bytes)

\* writer.rs:43-99
output(redirection, buf, w) ==
  LET print_to_stdout ==
        IF buf = <<>> THEN [w |-> w, written |-> FALSE]
        ELSE [w |-> [w EXCEPT !.out = @ \o as_bytes(from_utf8_lossy(buf))],
              written |-> TRUE]
      path == redirection.file_path
  IN  CASE redirection.kind = "Stdout" ->
             IF CanOpen(w.fs, path)
               THEN [w |-> [w EXCEPT !.fs = PutFile(@, path,
                              StdoutFileWrite(FileAt(w.fs, path).data,
                                redirection.append, buf, from_utf8_lossy(buf)))],
                     written |-> FALSE]
               ELSE [w |-> ErrorOpening(w, path), written |-> FALSE]
        [] redirection.kind = "Stderr" ->
             [print_to_stdout EXCEPT !.w.fs = Touch(@, path)]
        [] redirection.kind = "None" -> print_to_stdout

\* writer.rs:101-143
output_string(redirection, string, w) ==
  LET path == redirection.file_path
      println == [w EXCEPT !.out = @ \o as_bytes(string) \o <<LF>>]
  IN  CASE redirection.kind = "Stdout" ->
             IF CanOpen(w.fs, path)
               THEN [w EXCEPT !.fs = PutFile(@, path,
                       StdoutFileWrite(FileAt(w.fs, path).data,
                         redirection.append, as_bytes(string), string))]
               ELSE ErrorOpening(w, path)
        [] redirection.kind = "Stderr" -> [println EXCEPT !.fs = Touch(@, path)]
        [] redirection.kind = "None" -> println

\* writer.rs:144-189
output_error(redirection, buf, w) ==
  LET print_to_stderr ==
        IF buf = <<>> THEN [w |-> w, written |-> FALSE]
        ELSE [w |-> [w EXCEPT !.err = @ \o as_bytes(from_utf8_lossy(buf))],
              written |-> TRUE]
      path == redirection.file_path
  IN  CASE redirection.kind = "Stderr" ->
             IF CanOpen(w.fs, path)
               THEN [w |-> [w EXCEPT !.fs = PutFile(@, path,
                              StderrFileWrite(FileAt(w.fs, path).data,
                                redirection.append, buf))],
                     written |-> FALSE]
               ELSE [w |-> ErrorOpening(w, path), written |-> FALSE]
        [] redirection.kind = "Stdout" ->
             [print_to_stderr EXCEPT !.w.fs = Touch(@, path)]
        \* writer.rs:185: the arm is empty, print_to_stderr is not called
        [] redirection.kind = "None" -> [w |-> w, written |-> FALSE]

\* writer.rs:191-226
output_error_string(redirection, string, w) ==
  LET path == redirection.file_path
      eprintln == [w EXCEPT !.err = @ \o as_bytes(string) \o <<LF>>]
  IN  CASE redirection.kind = "Stderr" ->
             IF CanOpen(w.fs, path)
               THEN [w EXCEPT !.fs = PutFile(@, path,
                       StderrFileWrite(FileAt(w.fs, path).data,
                         redirection.append, as_bytes(string)))]
               ELSE ErrorOpening(w, path)
        [] redirection.kind = "Stdout" -> [eprintln EXCEPT !.fs = Touch(@, path)]
        [] redirection.kind = "None" -> eprintln

(***************************************************************************)
(* The dispatcher and the built-ins (command.rs).  ENV is the environment  *)
(* the shell runs in: PATH is the one directory "/p" holding the           *)
(* executable "c", HOME is "/", and "/" and "/p" are the directories.      *)
(***************************************************************************)
ENV == [path_dir |-> <<47, 112>>, executables |-> {<<CH.c>>, <<CH.t, CH.y, CH.x>>},
        home |-> <<CH.slash>>, dirs |-> {<<CH.slash>>, <<47, 112>>}]

\* utils.rs:13-26
find_command(command) ==
  IF command \in ENV.executables
    THEN Some(ENV.path_dir \o <<CH.slash>> \o command) ELSE None

\* impl From<String> for Cmd (command.rs:35-56): the variant's name
CmdFrom(program) ==
  CASE program = LIT.echo -> "Echo"
    [] program = LIT.exit -> "Exit"
    [] program = LIT.type -> "Type"
    [] program = LIT.pwd -> "Pwd"
    [] program = LIT.cd -> "Cd"
    [] OTHER -> IF IsSome(find_command(program)) THEN "Executable" ELSE "Unknown"

\* CmdOutput (writer.rs:13-19) and ExecutionOutput (command.rs:59-81)
CmdOut(kind, data) == [kind |-> kind, data |-> data]
EO_none == [stdout |-> None, stderr |-> None]
EO_stdout(s) == [stdout |-> Some(CmdOut("Stdout", s)), stderr |-> None]
EO_stderr(s) == [stdout |-> None, stderr |-> Some(CmdOut("Stderr", s))]
EO_stream == [stdout |-> Some(CmdOut("Stream", <<>>)), stderr |-> None]

RECURSIVE DigitsValue(_, _)
\* the value of a run of ASCII digits read after acc, -1 for a non-digit
DigitsValue(s, acc) ==
  IF s = <<>> THEN acc
  ELSE IF Head(s) < CH.zero \/ Head(s) > CH.nine THEN -1
  ELSE DigitsValue(Tail(s), acc * 10 + (Head(s) - CH.zero))

\* str::parse::<u8>: Some(n), or None for Err (command.rs:106)
ParseU8(s) ==
  LET digits == IF s # <<>> /\ Head(s) = CH.plus THEN Tail(s) ELSE s
      n == IF digits = <<>> THEN -1 ELSE DigitsValue(digits, 0)
  IN  IF n >= 0 /\ n <= 255 THEN Some(n) ELSE None

RECURSIVE expand_tilda(_)
\* utils.rs:53-58 with HOME set: str::replace("~", home)
expand_tilda(path) ==
  IF path = <<>> THEN <<>>
  ELSE (IF Head(path) = CH.tilde THEN ENV.home ELSE <<Head(path)>>)
         \o expand_tilda(Tail(path))

\* what a built-in does: [out, exit, cwd] with exit = Some(code) when the
\* call is process::exit(code), and cwd the working directory afterwards
Ran(out, cwd) == [out |-> out, exit |-> None, cwd |-> cwd]

\* command.rs:97-114
exec_exit(cmd_args, cwd) ==
  IF Len(cmd_args) = 1 THEN [out |-> EO_none, exit |-> Some(255), cwd |-> cwd]
  ELSE IF Len(cmd_args) = 2 THEN
    IF IsSome(ParseU8(cmd_args[2]))
      THEN [out |-> EO_none, exit |-> ParseU8(cmd_args[2]), cwd |-> cwd]
      ELSE Ran(EO_stderr(LIT.exit_invalid), cwd)
  ELSE Ran(EO_stderr(LIT.exit_expected), cwd)

\* command.rs:116-119
exec_echo(cmd_args, cwd) == Ran(EO_stdout(Join(Tail(cmd_args), <<SPACE>>)), cwd)

\* command.rs:121-138
exec_type(cmd_args, cwd) ==
  IF Len(cmd_args) = 2 THEN
    LET command == cmd_args[2]
    IN  CASE CmdFrom(command) = "Unknown" ->
               Ran(EO_stderr(command \o LIT.type_not_found), cwd)
          [] CmdFrom(command) = "Executable" ->
               Ran(EO_stdout(command \o LIT.is \o Unwrap(find_command(command))), cwd)
          [] OTHER -> Ran(EO_stdout(command \o LIT.is_builtin), cwd)
  ELSE Ran(EO_stderr(LIT.type_expected), cwd)

\* command.rs:189-213; env::set_current_dir succeeds on the directories of ENV
exec_cd(cmd_args, cwd) ==
  IF Len(cmd_args) > 2 THEN Ran(EO_stderr(LIT.cd_expected), cwd)
  ELSE
    LET path == IF Len(cmd_args) = 1 THEN LIT.tilde ELSE cmd_args[2]
        target == IF Head(path) = CH.tilde THEN expand_tilda(path) ELSE path
    IN  IF target \in ENV.dirs THEN Ran(EO_none, target)
        ELSE Ran(EO_stderr(LIT.cd_prefix \o path \o LIT.cd_nosuch), cwd)

\* command.rs:215-228
exec_pwd(cmd_args, cwd) ==
  IF Len(cmd_args) = 1 THEN Ran(EO_stdout(cwd), cwd)
  ELSE Ran(EO_stderr(LIT.pwd_expected), cwd)

\* Cmd::exec on a built-in (command.rs:83-95)
exec_builtin(kind, cmd_args, cwd) ==
  CASE kind = "Exit" -> exec_exit(cmd_args, cwd)
    [] kind = "Echo" -> exec_echo(cmd_args, cwd)
    [] kind = "Type" -> exec_type(cmd_args, cwd)
    [] kind = "Cd" -> exec_cd(cmd_args, cwd)
    [] kind = "Pwd" -> exec_pwd(cmd_args, cwd)

(***************************************************************************)
(* State.                                                                  *)
(***************************************************************************)
VARIABLES
  \* the world: files, and the bytes written to the terminal
  fs, tty_out, tty_err,
  \* the writer specification: CmdOutputWriter.redirection (writer.rs:33) and
  \* the calls made on the writer so far, each [op, data, pre] with pre the
  \* world the call started in
  wr_redirection, wr_calls,
  \* the shell specification: where main is (pc), the locals of main
  \* (main.rs:46-66), the working directory, the exit code once the process
  \* has exited, the lines read so far, and for each stage of the current
  \* line that has run what it was given and what it produced (ran)
  pc, input, cmds_list, index, piped_stdin, cwd, exit_code, prompts, ran,
  \* the editor specification: where read_input is (ed_pc), whether the
  \* terminal is in raw mode, the locals input and tab_completions
  \* (main.rs:166-169), what read_input returned, the bytes the last step
  \* printed, the number of bytes read so far, and buf[0], the byte read
  \* last (main.rs:165)
  ed_pc, raw_mode, ed_input, tab_completions, ed_result, ed_shown, ed_keys,
  ed_buf,
  \* the editor of input.rs: its local sequence_state (input.rs:21) and the
  \* last three bytes read_exact gave it
  sequence_state, ed_read,
  \* the lexer specification: where parse_args is (lx_pc), the characters of
  \* full_command consumed so far, the locals of parse_args (args.rs:72-76)
  \* and what parse_args returned
  lx_pc, lx_line, lx_st, lx_result,
  \* the trie specification: a Trie (trie.rs:5-7), the words inserted into it
  \* so far, and the last call of search or starts_with with its result
  tr_trie, tr_words, tr_last,
  \* the history specification: History.stack (history.rs:4-7), a
  \* HistoryNavigation on it (history.rs:68-71), and the last call on the
  \* cursor with what it returned
  hist_stack, hn, hn_last,
  \* the streaming specification, write_cmd_output for Stream(child)
  \* (writer.rs:238-302): where the parent is (sw_pc), the chunks in the
  \* child's stdout and stderr pipes that no worker has read, whether the
  \* child has exited, each worker's position and locals, the two flags the
  \* workers share with the parent, the bytes written to the terminal in
  \* the order they were written, and whether the parent printed the
  \* trailing newline
  sw_pc, sw_pipe, sw_exited, sw_worker, sw_end_lf, sw_was_written, sw_term,
  sw_println

worldVars == <<fs, tty_out, tty_err>>
writerVars == <<wr_redirection, wr_calls>>
shellVars == <<pc, input, cmds_list, index, piped_stdin, cwd, exit_code, prompts, ran>>
editorVars ==
  <<ed_pc, raw_mode, ed_input, tab_completions, ed_result, ed_shown, ed_keys,
    ed_buf, sequence_state, ed_read>>
lexVars == <<lx_pc, lx_line, lx_st, lx_result>>
trieVars == <<tr_trie, tr_words, tr_last>>
historyVars == <<hist_stack, hn, hn_last>>
streamVars ==
  <<sw_pc, sw_pipe, sw_exited, sw_worker, sw_end_lf, sw_was_written,
    sw_term,
    sw_println>>
vars ==
  <<worldVars, writerVars, shellVars, editorVars, lexVars, trieVars,
    historyVars, streamVars>>

\* TabCompletions::new (main.rs:141-144)
TabNew == [enabled |-> FALSE, completions |-> <<>>]

\* the lexer before parse_args is called, and no trie
LexOff ==
  /\ lx_pc = "off" /\ lx_line = <<>> /\ lx_result = [ok |-> TRUE, cmds |-> <<>>]
  /\ lx_st = [args |-> <<>>, arg |-> <<>>, wait_for |-> "Space", is_escaping |-> FALSE]
TrieOff ==
  /\ tr_trie = [nodes |-> {<<>>}, ends |-> {}] /\ tr_words = {}
  /\ tr_last = [op |-> "none", word |-> <<>>, result |-> FALSE]

\* the editor before read_input is called
\* no history and no cursor on it
HistoryOff ==
  /\ hist_stack = <<>> /\ hn = [pointer |-> 0, size |-> 0]
  /\ hn_last = [op |-> "none", result |-> <<>>]

\* the workers of one streamed stdout or stderr, before they read
WorkersNew ==
  [s \in {"stdout", "stderr"} |->
     [pc |-> "read", buf |-> <<>>, written |-> FALSE, eof_reads |-> 0]]

\* no child is streamed
StreamOff ==
  /\ sw_pc = "off" /\ sw_pipe = [stdout |-> <<>>, stderr |-> <<>>]
  /\ sw_exited = FALSE /\ sw_worker = WorkersNew
  /\ sw_end_lf = FALSE /\ sw_was_written = FALSE
  /\ sw_term = <<>> /\ sw_println = FALSE

EditorOff ==
  /\ ed_pc = "idle" /\ raw_mode = FALSE /\ ed_input = <<>>
  /\ tab_completions = TabNew /\ ed_result = [kind |-> "Pending", line |-> <<>>]
  /\ ed_shown = <<>> /\ ed_keys = 0 /\ ed_buf = 0
  /\ sequence_state = "Normal" /\ ed_read = <<>>

World == [fs |-> fs, out |-> tty_out, err |-> tty_err]
SetWorld(w) == fs' = w.fs /\ tty_out' = w.out /\ tty_err' = w.err

(***************************************************************************)
(* The writer specification: a CmdOutputWriter is constructed with some    *)
(* redirection over some file system, and up to two calls are made on it.  *)
(***************************************************************************)
\* the path the redirections of the model name ("f")
PathF == <<CH.f>>

\* the payloads: bytes (one of them begins no UTF-8 sequence) and text
ByteData == SeqsUpTo({CH.a, CH.bad}, MaxData)
TextData == SeqsUpTo({CH.a, CH.e_acute}, MaxData)

\* the file systems a writer starts in: f missing, a directory, or a file
InitialFs ==
  {<<>>} \cup {[q \in {PathF} |-> [kind |-> "dir", data |-> <<>>]]}
         \cup {[q \in {PathF} |-> [kind |-> "file", data |-> d]] :
                 d \in SeqsUpTo({CH.b}, MaxData)}

Redirections ==
  {RedirNone} \cup {RedirStdout(PathF, a) : a \in BOOLEAN}
              \cup {RedirStderr(PathF, a) : a \in BOOLEAN}

\* CmdOutputWriter::new (writer.rs:37-39)
WriterInit ==
  /\ fs \in InitialFs
  /\ tty_out = <<>> /\ tty_err = <<>>
  /\ wr_redirection \in Redirections
  /\ wr_calls = <<>>
  /\ pc = "off" /\ input = <<>> /\ cmds_list = <<>> /\ index = 0
  /\ piped_stdin = None /\ cwd = <<>> /\ exit_code = None /\ prompts = 0
  /\ ran = <<>>
  /\ EditorOff /\ LexOff /\ TrieOff /\ HistoryOff /\ StreamOff

Called(op, data) ==
  /\ Len(wr_calls) < 2
  /\ wr_calls' = Append(wr_calls, [op |-> op, data |-> data, pre |-> World])
  /\ UNCHANGED <<wr_redirection, shellVars, editorVars, lexVars, trieVars, historyVars, streamVars>>

Output ==
  \E buf \in ByteData :
    /\ Called("output", buf)
    /\ SetWorld(output(wr_redirection, buf, World).w)

OutputString ==
  \E string \in TextData :
    /\ Called("output_string", as_bytes(string))
    /\ SetWorld(output_string(wr_redirection, string, World))

OutputError ==
  \E buf \in ByteData :
    /\ Called("output_error", buf)
    /\ SetWorld(output_error(wr_redirection, buf, World).w)

OutputErrorString ==
  \E string \in TextData :
    /\ Called("output_error_string", as_bytes(string))
    /\ SetWorld(output_error_string(wr_redirection, string, World))

WriterNext == Output \/ OutputString \/ OutputError \/ OutputErrorString

SpecWriter == WriterInit /\ [][WriterNext]_vars

(***************************************************************************)
(* The shell specification: the loop of main (main.rs:34-120), one line    *)
(* after the other.  read_input is taken by its result here; the editor    *)
(* has a specification of its own.                                         *)
(***************************************************************************)
\* the stages that are typed: echo ab, with each kind of redirection; an
\* unknown command x; the executable c; an operator with no operand; a
\* redirection with no command; exit
StageTexts ==
  {Join(toks, <<SPACE>>) :
     toks \in {<<LIT.echo, <<CH.a, CH.b>>>>,
               <<LIT.echo, <<CH.a, CH.b>>, LIT.gt, PathF>>,
               <<LIT.echo, <<CH.a, CH.b>>, LIT.gtgt, PathF>>,
               <<LIT.echo, <<CH.a, CH.b>>, LIT.gt2, PathF>>,
               <<<<CH.x>>>>, <<<<CH.c>>>>,
               <<LIT.echo, LIT.gt>>, <<LIT.gt, PathF>>, <<LIT.exit>>}}

\* the lines of up to m stages joined by " | ", and the lines "|", "''",
\* " " and "echo ab | | c"
LinesUpTo(m) ==
  {Join(stages, <<SPACE, CH.bar, SPACE>>) :
     stages \in UNION {[1..n -> StageTexts] : n \in 1..m}}
  \cup {<<CH.bar>>, <<SINGLE_QUOTE, SINGLE_QUOTE>>, <<SPACE>>,
        Join(<<LIT.echo, <<CH.a, CH.b>>, LIT.bar, LIT.bar, <<CH.c>>>>, <<SPACE>>)}

\* the lines that are typed at the first prompt: up to MaxStages stages
Lines == LinesUpTo(MaxStages)

\* CmdInput (command.rs:19-23); from is the stage whose output it carries
CmdInput(kind, data, from) == [kind |-> kind, data |-> data, from |-> from]

\* CanPipe without the test of the redirection
CanPipe_AnyRedirection(execution_output, redirection, is_piped) ==
  /\ IsSome(execution_output.stdout)
  /\ ~IsSome(execution_output.stderr)
  /\ is_piped

\* the condition of the first arm of the match (main.rs:85-86)
CanPipe(execution_output, redirection, is_piped) ==
  /\ IsSome(execution_output.stdout)
  /\ ~IsSome(execution_output.stderr)
  /\ redirection.kind \in {"None", "Stderr"}
  /\ is_piped

\* the body of the first arm (main.rs:88-105): piped_stdin afterwards
Stash(stdout, from, piped) ==
  CASE stdout.kind = "Stdout" -> Some(CmdInput("String", stdout.data, from))
    [] stdout.kind = "StdoutBytes" -> Some(CmdInput("Bytes", stdout.data, from))
    [] stdout.kind = "Stream" -> Some(CmdInput("Pipe", <<>>, from))
    [] OTHER -> piped

\* write_cmd_output (writer.rs:228-304).  For Stream(child) the two workers
\* are taken together: chunk is what the child wrote on its stdout, forwarded
\* by one call of output before the parent reads the flags, and the child
\* writes nothing on its stderr.
write_cmd_output(redirection, cmd_output, chunk, w) ==
  CASE cmd_output.kind = "Stdout" -> output_string(redirection, cmd_output.data, w)
    [] cmd_output.kind = "StdoutBytes" -> output(redirection, cmd_output.data, w).w
    [] cmd_output.kind = "Stderr" -> output_error_string(redirection, cmd_output.data, w)
    [] cmd_output.kind = "StderrBytes" -> output_error(redirection, cmd_output.data, w).w
    [] cmd_output.kind = "Stream" ->
         IF chunk = <<>> THEN w
         ELSE LET r == output(redirection, chunk, w)
                  end_lf == chunk[Len(chunk)] = LF
              IN  IF r.written /\ ~end_lf
                    THEN [r.w EXCEPT !.out = @ \o <<LF>>] ELSE r.w

\* write_execution_output (main.rs:286-297)
write_execution_output(redirection, execution_output, chunk, w) ==
  LET w1 == IF IsSome(execution_output.stdout)
              THEN write_cmd_output(redirection, Unwrap(execution_output.stdout), chunk, w)
              ELSE w
  IN  IF IsSome(execution_output.stderr)
        THEN write_cmd_output(redirection, Unwrap(execution_output.stderr), chunk, w1)
        ELSE w1

\* the match on (execution_output, redirection) (main.rs:78-117):
\* the arm that was taken, and piped_stdin and the world afterwards
Routed(execution_output, redirection, is_piped, from, piped, chunk, w) ==
  IF CanPipe(execution_output, redirection, is_piped)
    THEN [arm |-> "stash",
          piped |-> Stash(Unwrap(execution_output.stdout), from, piped), w |-> w]
    ELSE [arm |-> "writer", piped |-> piped,
          w |-> write_execution_output(redirection, execution_output, chunk, w)]

ShellInit ==
  /\ fs \in {<<>>, [q \in {PathF} |-> [kind |-> "file", data |-> <<CH.b>>]],
             [q \in {PathF} |-> [kind |-> "dir", data |-> <<>>]]}
  /\ tty_out = <<>> /\ tty_err = <<>>
  /\ wr_redirection = RedirNone /\ wr_calls = <<>>
  /\ pc = "prompt" /\ input = <<>> /\ cmds_list = <<>> /\ index = 0
  /\ piped_stdin = None /\ cwd = ENV.home /\ exit_code = None /\ prompts = 0
  /\ ran = <<>>
  /\ EditorOff /\ LexOff /\ TrieOff /\ HistoryOff /\ StreamOff

\* read_input returns Ok(Some(input)) (main.rs:46-47); a line typed at a
\* later prompt is shorter by one stage for every prompt before it
ReadLine ==
  /\ pc = "prompt" /\ prompts < MaxPrompts
  /\ \E line \in LinesUpTo(MaxStages - prompts) : input' = line
  /\ prompts' = prompts + 1
  /\ pc' = "parse"
  /\ UNCHANGED <<cmds_list, index, piped_stdin, cwd, exit_code, ran, worldVars, writerVars, editorVars, lexVars, trieVars, historyVars, streamVars>>

\* read_input returns Ok(None) after Ctrl-C: continue (main.rs:48)
ReadCancelled ==
  /\ pc = "prompt" /\ prompts < MaxPrompts
  /\ prompts' = prompts + 1
  /\ UNCHANGED <<pc, input, cmds_list, index, piped_stdin, cwd, exit_code, ran,
                 worldVars, writerVars, editorVars, lexVars, trieVars, historyVars, streamVars>>

\* read_input returns Err and `?` returns it from main (main.rs:46)
ReadFailed ==
  /\ pc = "prompt" /\ prompts < MaxPrompts
  /\ pc' = "failed"
  /\ UNCHANGED <<input, cmds_list, index, piped_stdin, cwd, exit_code, prompts, ran,
                 worldVars, writerVars, editorVars, lexVars, trieVars, historyVars, streamVars>>

\* main.rs:51-61: the blank check, parse_args and the locals of the loop
ParseLine ==
  /\ pc = "parse"
  /\ IF Trim(input) = <<>> THEN
       /\ pc' = "done"
       /\ UNCHANGED <<cmds_list, index>>
     ELSE
       LET parsed == parse_args(Trim(input))
       IN  IF ~parsed.ok THEN
             \* the panic of unwrap in extract_redirection (args.rs:21-42)
             /\ pc' = "panicked"
             /\ UNCHANGED <<cmds_list, index>>
           ELSE
             /\ cmds_list' = parsed.cmds
             /\ index' = 1
             /\ pc' = IF parsed.cmds = <<>> THEN "done" ELSE "exec"
  /\ UNCHANGED <<input, piped_stdin, cwd, exit_code, prompts, ran, worldVars, writerVars, editorVars, lexVars, trieVars, historyVars, streamVars>>

\* the end of an iteration of the outer loop (main.rs:53, 119): the locals of
\* the iteration are dropped, and what the terminal showed for the line is no
\* longer followed
EndOfLine ==
  /\ pc = "done"
  /\ pc' = "prompt"
  /\ input' = <<>> /\ cmds_list' = <<>> /\ index' = 0 /\ piped_stdin' = None
  /\ ran' = <<>> /\ tty_out' = <<>> /\ tty_err' = <<>>
  /\ UNCHANGED <<fs, cwd, exit_code, prompts, writerVars, editorVars, lexVars, trieVars, historyVars, streamVars>>

\* the stage the loop is at, and is_piped (main.rs:64-66)
cmd_args == cmds_list[index].args
redirection == cmds_list[index].redirection
is_piped == index < Len(cmds_list)
AtStage == pc = "exec" /\ index <= Len(cmds_list)

\* the end of the body of the inner loop: the next stage, or the end of the
\* line
NextStage ==
  /\ index' = index + 1
  /\ pc' = IF index = Len(cmds_list) THEN "done" ELSE "exec"
  /\ UNCHANGED <<input, cmds_list, exit_code, prompts, writerVars, editorVars, lexVars, trieVars, historyVars, streamVars>>

\* what ran keeps of a stage: the command kind, whether exec was called and
\* with what input, for a spawned child the bytes written to its stdin and
\* whether that stdin was closed, the stage's output, piped_stdin after the
\* stage, the arm of the match that took the output, its redirection and the
\* file the redirection names as it was before the stage
StageRecord(kind, called, in, spawned, delivered, closed, out, stashed, arm) ==
  [cmd |-> kind, called |-> called, input |-> in, spawned |-> spawned,
   delivered |-> delivered, closed |-> closed, out |-> out, stashed |-> stashed,
   arm |-> arm,
   redirection |-> redirection, is_piped |-> is_piped,
   pre_file |-> FileAt(fs, redirection.file_path)]

\* cmd_args[0] on an empty argv: index out of bounds (main.rs:69)
StagePanics ==
  /\ AtStage /\ cmd_args = <<>>
  /\ pc' = "panicked"
  /\ UNCHANGED <<input, cmds_list, index, piped_stdin, cwd, exit_code, prompts, ran,
                 worldVars, writerVars, editorVars, lexVars, trieVars, historyVars, streamVars>>

\* Cmd::Unknown (main.rs:70-73): piped_stdin is not taken
StageUnknown ==
  /\ AtStage /\ cmd_args # <<>> /\ CmdFrom(cmd_args[1]) = "Unknown"
  /\ LET w1 == [World EXCEPT !.out = @ \o as_bytes(Trim(input) \o LIT.not_found) \o <<LF>>]
         r == Routed(EO_none, redirection, is_piped, index, piped_stdin, <<>>, w1)
     IN  /\ piped_stdin' = r.piped
         /\ SetWorld(r.w)
         /\ ran' = Append(ran, StageRecord("Unknown", FALSE, None, FALSE, <<>>, FALSE,
                                           EO_none, r.piped, r.arm))
  /\ UNCHANGED cwd
  /\ NextStage

\* a built-in (main.rs:74, command.rs:83-95): piped_stdin.take() is passed
\* and dropped
StageBuiltin ==
  /\ AtStage /\ cmd_args # <<>>
  /\ CmdFrom(cmd_args[1]) \in {"Echo", "Exit", "Type", "Cd", "Pwd"}
  /\ LET e == exec_builtin(CmdFrom(cmd_args[1]), cmd_args, cwd)
         r == Routed(e.out, redirection, is_piped, index, None, <<>>, World)
     IN  /\ ~IsSome(e.exit)
         /\ cwd' = e.cwd
         /\ piped_stdin' = r.piped
         /\ SetWorld(r.w)
         /\ ran' = Append(ran, StageRecord(CmdFrom(cmd_args[1]), TRUE, piped_stdin,
                                           FALSE, <<>>, FALSE, e.out, r.piped,
                                           r.arm))
  /\ NextStage

\* exit with no argument or with a code: process::exit (command.rs:104-107)
StageExits ==
  /\ AtStage /\ cmd_args # <<>> /\ CmdFrom(cmd_args[1]) = "Exit"
  /\ LET e == exec_exit(cmd_args, cwd)
     IN  /\ IsSome(e.exit)
         /\ exit_code' = e.exit
  /\ pc' = "exited"
  /\ UNCHANGED <<input, cmds_list, index, piped_stdin, cwd, prompts, ran,
                 worldVars, writerVars, editorVars, lexVars, trieVars, historyVars, streamVars>>

\* what one call of ChildStdin::write(bytes) may return (command.rs:171, 176):
\* the number of bytes the pipe accepted, or "Err" when the child has closed
\* its end
WriteResults(bytes) ==
  IF bytes = <<>> THEN {0} ELSE (1..Len(bytes)) \cup {-1}

\* an executable (command.rs:140-187): spawn fails, or the child is spawned,
\* one write hands it the piped data and its stdin is dropped; then the
\* match of main
StageExternal ==
  /\ AtStage /\ cmd_args # <<>> /\ CmdFrom(cmd_args[1]) = "Executable"
  /\ \E spawned \in BOOLEAN, chunk \in {<<>>, <<CH.a>>} :
       LET in == piped_stdin
           data == IF IsSome(in) /\ Unwrap(in).kind \in {"String", "Bytes"}
                     THEN Some(IF Unwrap(in).kind = "String"
                                 THEN as_bytes(Unwrap(in).data) ELSE Unwrap(in).data)
                     ELSE None
       IN  \E n \in (IF spawned /\ IsSome(data) THEN WriteResults(Unwrap(data)) ELSE {0}) :
             LET out == IF spawned THEN EO_stream
                        ELSE EO_stderr(cmd_args[1] \o LIT.failed)
                 r == Routed(out, redirection, is_piped, index, None, chunk, World)
             IN  /\ n >= 0
                 /\ piped_stdin' = r.piped
                 /\ SetWorld(r.w)
                 /\ ran' = Append(ran,
                      StageRecord("Executable", TRUE, in, spawned,
                        IF spawned /\ IsSome(data) THEN SubSeq(Unwrap(data), 1, n) ELSE <<>>,
                        spawned /\ IsSome(data), out, r.piped, r.arm))
  /\ UNCHANGED cwd
  /\ NextStage

\* the write to the child's stdin returns Err and unwrap panics
\* (command.rs:171, 176)
StageWritePanics ==
  /\ AtStage /\ cmd_args # <<>> /\ CmdFrom(cmd_args[1]) = "Executable"
  /\ IsSome(piped_stdin) /\ Unwrap(piped_stdin).kind \in {"String", "Bytes"}
  /\ -1 \in WriteResults(Unwrap(piped_stdin).data)
  /\ pc' = "panicked"
  /\ UNCHANGED <<input, cmds_list, index, piped_stdin, cwd, exit_code, prompts, ran,
                 worldVars, writerVars, editorVars, lexVars, trieVars, historyVars, streamVars>>

ShellNext ==
  \/ ReadLine \/ ReadCancelled \/ ReadFailed \/ ParseLine \/ EndOfLine
  \/ StagePanics \/ StageUnknown \/ StageBuiltin \/ StageExits
  \/ StageExternal \/ StageWritePanics

SpecShell == ShellInit /\ [][ShellNext]_vars

(***************************************************************************)
(* The lexer as a state machine: parse_args (args.rs:71-159) takes the     *)
(* characters of full_command one at a time, then commits the last token,  *)
(* splits the tokens by "|" and extracts the redirection of each group.    *)
(***************************************************************************)
\* the characters lines are made of
LexChars == {CH.a, SPACE, SINGLE_QUOTE, DOUBLE_QUOTE, ESCAPE, CH.bar, CH.gt}

\* the world, the writer, the shell, the editor and the trie at rest
RestOff ==
  /\ fs = <<>> /\ tty_out = <<>> /\ tty_err = <<>>
  /\ wr_redirection = RedirNone /\ wr_calls = <<>>
  /\ pc = "off" /\ input = <<>> /\ cmds_list = <<>> /\ index = 0
  /\ piped_stdin = None /\ cwd = <<>> /\ exit_code = None /\ prompts = 0
  /\ ran = <<>>
  /\ EditorOff

\* parse_args is called: its locals before the loop (args.rs:72-76)
LexInit ==
  /\ RestOff /\ TrieOff /\ HistoryOff /\ StreamOff
  /\ lx_pc = "scan" /\ lx_line = <<>> /\ lx_st = ScanInit
  /\ lx_result = [ok |-> TRUE, cmds |-> <<>>]

\* what no step of the lexer changes
LexFrame ==
  UNCHANGED <<worldVars, writerVars, shellVars, editorVars, trieVars,
              historyVars, streamVars>>

\* one iteration of the loop (args.rs:78-146) on the character ch, leaving
\* the locals as st
LexTakes(ch, st) ==
  /\ lx_pc = "scan" /\ Len(lx_line) < MaxLineLen
  /\ lx_line' = Append(lx_line, ch)
  /\ lx_st' = st
  /\ UNCHANGED <<lx_pc, lx_result>>
  /\ LexFrame

\* LexEscaped with the backslash and the character both kept in a
\* double-quoted region, whatever the character
LexEscaped_DoubleQuoteKeepsBoth ==
  \E ch \in LexChars :
    /\ lx_st.is_escaping
    /\ LexTakes(ch, IF lx_st.wait_for = "DoubleQuote"
                      THEN [lx_st EXCEPT !.arg = @ \o <<ESCAPE, ch>>,
                                         !.is_escaping = FALSE]
                      ELSE ScanStep(lx_st, ch))

\* LexEscaped with the character after an unquoted backslash interpreted as
\* if there had been no backslash
LexEscaped_UnquotedInterprets ==
  \E ch \in LexChars :
    /\ lx_st.is_escaping
    /\ LexTakes(ch, IF lx_st.wait_for = "Space"
                      THEN ScanStep([lx_st EXCEPT !.is_escaping = FALSE], ch)
                      ELSE ScanStep(lx_st, ch))

\* the character after a backslash (args.rs:79-101)
LexEscaped ==
  \E ch \in LexChars :
    /\ lx_st.is_escaping
    /\ LexTakes(ch, ScanStep(lx_st, ch))

\* LexSpace with a space ending the argument in every mode
LexSpace_SeparatesInQuotes ==
  /\ ~lx_st.is_escaping
  /\ LexTakes(SPACE, ScanStep([lx_st EXCEPT !.wait_for = "Space"], SPACE))

\* a space (args.rs:104-121)
LexSpace ==
  /\ ~lx_st.is_escaping
  /\ LexTakes(SPACE, ScanStep(lx_st, SPACE))

\* a single quote (args.rs:122-131)
LexSingleQuote ==
  /\ ~lx_st.is_escaping
  /\ LexTakes(SINGLE_QUOTE, ScanStep(lx_st, SINGLE_QUOTE))

\* a double quote (args.rs:132-141)
LexDoubleQuote ==
  /\ ~lx_st.is_escaping
  /\ LexTakes(DOUBLE_QUOTE, ScanStep(lx_st, DOUBLE_QUOTE))

\* a backslash (args.rs:142)
LexEscape ==
  /\ ~lx_st.is_escaping
  /\ LexTakes(ESCAPE, ScanStep(lx_st, ESCAPE))

\* any other character (args.rs:144)
LexRegular ==
  \E ch \in LexChars \ {SPACE, SINGLE_QUOTE, DOUBLE_QUOTE, ESCAPE} :
    /\ ~lx_st.is_escaping
    /\ LexTakes(ch, ScanStep(lx_st, ch))

\* the end of full_command: the commit of the last token, the split and the
\* extraction (args.rs:148-158); the unwrap in extract_redirection may panic
LexFinish ==
  /\ lx_pc = "scan"
  /\ lx_st' = [lx_st EXCEPT !.args = ScanEnd(lx_st), !.arg = <<>>]
  /\ lx_result' = StagesOf(ScanEnd(lx_st))
  /\ lx_pc' = IF StagesOf(ScanEnd(lx_st)).ok THEN "done" ELSE "panicked"
  /\ UNCHANGED lx_line
  /\ LexFrame

LexNext ==
  \/ LexEscaped \/ LexSpace \/ LexSingleQuote \/ LexDoubleQuote
  \/ LexEscape \/ LexRegular \/ LexFinish

SpecLex == LexInit /\ [][LexNext]_vars

\* the tokens lines are made of in the token specification
Tokens == {<<CH.a>>, <<CH.b>>, LIT.bar, LIT.gt, LIT.gt1, LIT.gtgt, LIT.gtgt1,
           LIT.gt2, LIT.gtgt2}

\* parse_args at the end of its loop, having scanned a line of up to
\* MaxTokens tokens separated by single spaces
TokensInit ==
  /\ RestOff /\ TrieOff /\ HistoryOff /\ StreamOff
  /\ lx_pc = "scan"
  /\ \E toks \in SeqsUpTo(Tokens, MaxTokens) : lx_line = Join(toks, <<SPACE>>)
  /\ lx_st = ScanFrom(ScanInit, lx_line)
  /\ lx_result = [ok |-> TRUE, cmds |-> <<>>]

SpecTokens == TokensInit /\ [][LexFinish]_vars

(***************************************************************************)
(* Claims about the lexer, checked under SpecLex and SpecTokens.           *)
(***************************************************************************)
\* parse_args has returned or panicked on the line lx_line
Lexed == lx_pc \in {"done", "panicked"}

\* the line is a non-empty string with no quote, backslash, pipe or space
PlainWord ==
  /\ lx_line # <<>>
  /\ \A i \in 1..Len(lx_line) :
       lx_line[i] \notin {SINGLE_QUOTE, DOUBLE_QUOTE, ESCAPE, CH.bar, SPACE}

\* parse_args returned the single stage (<<s>>, Redirection::None)
OneStageOf(s) ==
  /\ lx_pc = "done"
  /\ lx_result = [ok |-> TRUE,
                  cmds |-> <<[args |-> <<s>>, redirection |-> RedirNone]>>]

\* C12 as stated: every non-empty string s with no single quote, double
\* quote, backslash, pipe character or space lexes to exactly one stage with
\* argv [s] and no redirection.
C12_PlainWordIsOneStage == (Lexed /\ PlainWord) => OneStageOf(lx_line)

\* C12 amended: every such s that is not itself a redirection operator lexes
\* to exactly one stage with argv [s] and no redirection.
C12_PlainNonOperatorWordIsOneStage ==
  (Lexed /\ PlainWord /\ ~IsRedirOp(lx_line)) => OneStageOf(lx_line)

\* C12's case: the word a>a has been lexed to one stage
C12_Witness ==
  /\ lx_line = <<CH.a, CH.gt, CH.a>>
  /\ OneStageOf(<<CH.a, CH.gt, CH.a>>)

\* each element of argv wrapped in single quotes, joined by single spaces
Requote(argv) ==
  Join([i \in 1..Len(argv) |-> <<SINGLE_QUOTE>> \o argv[i] \o <<SINGLE_QUOTE>>],
       <<SPACE>>)

\* lexing the requoted argv gives one stage with the same argv
RoundTrips(argv) ==
  LET again == parse_args(Requote(argv))
  IN  again.ok /\ Len(again.cmds) = 1 /\ again.cmds[1].args = argv

Requotable(argv) ==
  \A i \in 1..Len(argv) :
    /\ \A j \in 1..Len(argv[i]) : argv[i][j] # SINGLE_QUOTE
    /\ argv[i][Len(argv[i])] # ESCAPE

OpensSingleQuoted(s) ==
  /\ s # <<>> /\ s[1] = SINGLE_QUOTE
  /\ \A i \in 2..Len(s) : s[i] \notin {SINGLE_QUOTE, ESCAPE}

\* C14: inside a single-quoted region a backslash is an ordinary character:
\* it is appended to the argument and the escape-pending flag is not set, and
\* the single quote after it closes the region; so a line ' w \ ' has been
\* scanned to the single argument w\ with the mode back to Unquoted.
C14_BackslashIsOrdinaryInSingleQuotes ==
  /\ \A n \in 1..Len(lx_line) :
       (/\ lx_pc = "scan" /\ n = Len(lx_line) - 1
        /\ OpensSingleQuoted(SubSeq(lx_line, 1, n)) /\ lx_line[n + 1] = ESCAPE) =>
         lx_st = [args |-> <<>>, arg |-> SubSeq(lx_line, 2, n + 1),
                  wait_for |-> "SingleQuote", is_escaping |-> FALSE]
  /\ \A n \in 1..Len(lx_line) :
       (/\ lx_pc = "scan" /\ n = Len(lx_line) - 2
        /\ OpensSingleQuoted(SubSeq(lx_line, 1, n))
        /\ lx_line[n + 1] = ESCAPE /\ lx_line[n + 2] = SINGLE_QUOTE) =>
         lx_st = [args |-> <<>>, arg |-> SubSeq(lx_line, 2, n + 1),
                  wait_for |-> "Space", is_escaping |-> FALSE]

\* a step of the loop has taken one character, which is c
Took(c) == lx_line' = Append(lx_line, c)

\* C15: inside a double-quoted region a backslash sets the escape and
\* appends nothing; the character c after it is appended alone when c is a
\* backslash or a double quote (and the region stays open), and both the
\* backslash and c are appended for every other c.
C15_DoubleQuoteEscapes ==
  [][\A c \in LexChars :
       (Took(c) /\ lx_st.wait_for = "DoubleQuote") =>
         /\ (~lx_st.is_escaping /\ c = ESCAPE) =>
              lx_st' = [lx_st EXCEPT !.is_escaping = TRUE]
         /\ lx_st.is_escaping =>
              lx_st' = [lx_st EXCEPT
                          !.arg = IF c \in {ESCAPE, DOUBLE_QUOTE}
                                    THEN Append(@, c) ELSE @ \o <<ESCAPE, c>>,
                          !.is_escaping = FALSE]]_vars

\* C15's case: "\"\a has been scanned: the escaped double quote is in the
\* argument alone, the region is open, and \a is kept with its backslash
C15_Witness ==
  /\ lx_pc = "scan"
  /\ lx_line = <<DOUBLE_QUOTE, ESCAPE, DOUBLE_QUOTE, ESCAPE, CH.a>>
  /\ lx_st = [args |-> <<>>, arg |-> <<DOUBLE_QUOTE, ESCAPE, CH.a>>,
              wait_for |-> "DoubleQuote", is_escaping |-> FALSE]

\* C16: in Unquoted mode a backslash sets the escape and appends nothing,
\* and the character c after it, whatever it is, is appended alone to the
\* current argument: it ends no argument and changes no mode.
C16_UnquotedEscapes ==
  [][\A c \in LexChars :
       (Took(c) /\ lx_st.wait_for = "Space") =>
         /\ (~lx_st.is_escaping /\ c = ESCAPE) =>
              lx_st' = [lx_st EXCEPT !.is_escaping = TRUE]
         /\ lx_st.is_escaping =>
              lx_st' = [lx_st EXCEPT !.arg = Append(@, c),
                                     !.is_escaping = FALSE]]_vars

\* C16's case: the line `a \ a` has been lexed to the argv [a, " a"]
C16_Witness ==
  /\ lx_pc = "done"
  /\ lx_line = <<CH.a, SPACE, ESCAPE, SPACE, CH.a>>
  /\ lx_result.cmds = <<[args |-> <<<<CH.a>>, <<SPACE, CH.a>>>>,
                         redirection |-> RedirNone]>>

\* C17: an unquoted, unescaped space ends the current argument when there is
\* one and is ignored otherwise, so no argument is ever empty; inside a
\* quoted region a space and a quote character of the other kind are kept
\* in the argument as typed, and end nothing.
C17_SpacesSeparateOnlyUnquoted ==
  [][/\ \A i \in 1..Len(lx_st'.args) : lx_st'.args[i] # <<>>
     /\ (Took(SPACE) /\ lx_st.wait_for = "Space" /\ ~lx_st.is_escaping) =>
          lx_st' = IF lx_st.arg = <<>> THEN lx_st
                   ELSE [lx_st EXCEPT !.args = Append(@, lx_st.arg), !.arg = <<>>]
     /\ \A c \in {SPACE, SINGLE_QUOTE, DOUBLE_QUOTE} :
          (/\ Took(c)
           /\ \/ lx_st.wait_for = "SingleQuote" /\ c # SINGLE_QUOTE
              \/ lx_st.wait_for = "DoubleQuote" /\ c # DOUBLE_QUOTE) =>
            lx_st' = [lx_st EXCEPT
                        !.arg = IF lx_st.is_escaping THEN @ \o <<ESCAPE, c>>
                                ELSE Append(@, c),
                        !.is_escaping = FALSE]]_vars

\* C17's case: the line `a '" ` (a space, then a quoted double quote and
\* space, the region left open) has been lexed to the argv [a, `" `]
C17_Witness ==
  /\ lx_pc = "done"
  /\ lx_line = <<CH.a, SPACE, SINGLE_QUOTE, DOUBLE_QUOTE, SPACE>>
  /\ lx_result.cmds = <<[args |-> <<<<CH.a>>, <<DOUBLE_QUOTE, SPACE>>>>,
                         redirection |-> RedirNone]>>

\* the tokens of the line, the positions of the "|" tokens among them, and
\* the groups the "|" tokens separate: group i lies between the (i-1)-th and
\* the i-th "|"
BarPositions == {p \in 1..Len(lx_st.args) : lx_st.args[p] = LIT.bar}
GroupCount == Cardinality(BarPositions) + 1
BarAt(k) ==
  IF k = 0 THEN 0
  ELSE IF k = GroupCount THEN Len(lx_st.args) + 1
  ELSE CHOOSE p \in BarPositions :
         Cardinality({q \in BarPositions : q <= p}) = k
Group(i) == SubSeq(lx_st.args, BarAt(i - 1) + 1, BarAt(i) - 1)

\* the line is N >= 1 non-empty groups of tokens separated by "|" tokens
NonEmptyGroups ==
  /\ Lexed /\ lx_st.args # <<>>
  /\ \A i \in 1..GroupCount : Group(i) # <<>>

\* the positions of the redirection operators of the token list g
OperatorsOf(g) == {p \in 1..Len(g) : IsRedirOp(g[p])}

\* C18: a line of N >= 1 non-empty groups of tokens separated by "|" tokens
\* is split into exactly N stages, in order, stage i holding exactly the
\* tokens of group i; and parse_args, when it returns, returns N stages, a
\* stage with no redirection operator having its group as argv.
C18_OneStagePerGroup ==
  NonEmptyGroups =>
    /\ split_vec_by_delimiter(lx_st.args, LIT.bar) = [i \in 1..GroupCount |-> Group(i)]
    /\ lx_pc = "done" =>
         /\ Len(lx_result.cmds) = GroupCount
         /\ \A i \in 1..GroupCount :
              OperatorsOf(Group(i)) = {} => lx_result.cmds[i].args = Group(i)

\* C18's case: the line `a | b` has been lexed to two stages [a] and [b]
C18_Witness ==
  /\ lx_pc = "done"
  /\ lx_line = <<CH.a, SPACE, CH.bar, SPACE, CH.b>>
  /\ GroupCount = 2
  /\ lx_result.cmds = <<[args |-> <<<<CH.a>>>>, redirection |-> RedirNone],
                        [args |-> <<<<CH.b>>>>, redirection |-> RedirNone]>>

\* every redirection operator of g is followed by an operand, a token that
\* is not itself an operator
OperandsFollow(g) ==
  \A p \in OperatorsOf(g) : p < Len(g) /\ ~IsRedirOp(g[p + 1])

\* the redirection an operator denotes with the path after it
Denoted(op, path) ==
  CASE op \in {<<CH.gt>>, <<CH.one, CH.gt>>} ->
         [kind |-> "Stdout", file_path |-> path, append |-> FALSE]
    [] op \in {<<CH.gt, CH.gt>>, <<CH.one, CH.gt, CH.gt>>} ->
         [kind |-> "Stdout", file_path |-> path, append |-> TRUE]
    [] op = <<CH.two, CH.gt>> ->
         [kind |-> "Stderr", file_path |-> path, append |-> FALSE]
    [] op = <<CH.two, CH.gt, CH.gt>> ->
         [kind |-> "Stderr", file_path |-> path, append |-> TRUE]

\* the tokens of g that are neither an operator nor the operand of one, in
\* their order
WithoutRedirections(g) ==
  LET kept == {p \in 1..Len(g) : p \notin OperatorsOf(g) /\ (p - 1) \notin OperatorsOf(g)}
  IN  [j \in 1..Cardinality(kept) |->
         g[CHOOSE p \in kept : Cardinality({q \in kept : q <= p}) = j]]

\* the redirection of g: that of its last operator, None when it has none
LastRedirection(g) ==
  IF OperatorsOf(g) = {} THEN [kind |-> "None", file_path |-> <<>>, append |-> FALSE]
  ELSE LET last == CHOOSE p \in OperatorsOf(g) : \A q \in OperatorsOf(g) : q <= p
       IN  Denoted(g[last], g[last + 1])

\* C19: for a stage in which every redirection operator is followed by an
\* operand, the redirection is the one the last operator of the stage
\* denotes with the token after it as path (None with no operator), and the
\* argv is the stage's tokens without the operators and their operands, in
\* the original order.
C19_LastOperatorWins ==
  NonEmptyGroups =>
    \A i \in 1..GroupCount :
      OperandsFollow(Group(i)) =>
        /\ extract_redirection(Group(i)) =
             [ok |-> TRUE, final_args |-> WithoutRedirections(Group(i)),
              redirection |-> LastRedirection(Group(i))]
        /\ lx_pc = "done" =>
             lx_result.cmds[i] = [args |-> WithoutRedirections(Group(i)),
                                  redirection |-> LastRedirection(Group(i))]

\* C19's case: the line `> b 2>> a` has been lexed to one stage with the
\* redirection of its last operator, Stderr{a, append}, and an empty argv
C19_Witness ==
  /\ lx_pc = "done"
  /\ lx_st.args = <<LIT.gt, <<CH.b>>, LIT.gtgt2, <<CH.a>>>>
  /\ lx_result.cmds = <<[args |-> <<>>, redirection |-> RedirStderr(<<CH.a>>, TRUE)]>>

\* the end of the line is reached by this step
AtEndOfInput == lx_pc = "scan" /\ lx_pc' # "scan"

\* C36: at the end of input, whatever the mode and the escape flag are (an
\* unterminated quoted region, a trailing lone backslash), the argument
\* buffer is committed as it is when it is non-empty and nothing is
\* committed when it is empty, the outcome is that of the committed tokens
\* alone, and no committed argument is ever empty.
C36_EndOfInputCommitsTheBuffer ==
  /\ [](\A i \in DOMAIN lx_st.args : lx_st.args[i] # <<>>)
  /\ [][AtEndOfInput =>
          /\ lx_st'.args = IF lx_st.arg # <<>>
                             THEN lx_st.args \o <<lx_st.arg>> ELSE lx_st.args
          /\ lx_result' = StagesOf(lx_st'.args)
          /\ lx_pc' = "panicked" <=> ~lx_result'.ok]_vars

\* C36's case: the line `"a \` has been lexed: the open double-quoted region
\* is committed as `a `, without the trailing backslash
C36_Witness ==
  /\ lx_pc = "done"
  /\ lx_line = <<DOUBLE_QUOTE, CH.a, SPACE, ESCAPE>>
  /\ lx_st.args = <<<<CH.a, SPACE>>>>

(***************************************************************************)
(* The completion trie (trie.rs).  A trie is the set of the paths of its   *)
(* nodes, the root being <<>>, and the set of the paths whose node has     *)
(* is_end set.                                                             *)
(***************************************************************************)
TrieNew == [nodes |-> {<<>>}, ends |-> {}]

\* the byte index char_indices gives for the i-th char of str
ByteIndex(str, i) == Len(as_bytes(SubSeq(str, 1, i - 1)))

\* Trie::insert (trie.rs:32-43): is_end compares a byte index with a byte
\* length
insert(trie, word) ==
  [nodes |-> trie.nodes \cup {SubSeq(word, 1, i) : i \in 1..Len(word)},
   ends  |-> trie.ends \cup
             {SubSeq(word, 1, i) :
                i \in {j \in 1..Len(word) :
                         ByteIndex(word, j) + 1 = Len(as_bytes(word))}}]

\* node.children of the node at path p
children(trie, p) ==
  {q \in trie.nodes : Len(q) = Len(p) + 1 /\ IsPrefix(p, q)}

\* Trie::collect_words (trie.rs:106-114); the order of the words is the
\* iteration order of a HashMap, so they are a set
collect_words(trie, prefix) == {q \in trie.ends : IsPrefix(prefix, q)}

\* Trie::get_completions (trie.rs:84-104)
get_completions(trie, prefix) ==
  IF prefix = <<>> \/ prefix \notin trie.nodes THEN {}
  ELSE collect_words(trie, prefix)

\* the second phase of longest_common_prefix (trie.rs:170-201)
RECURSIVE ExtendPrefix(_, _)
ExtendPrefix(trie, new_prefix) ==
  LET ch == children(trie, new_prefix)
  IN  IF Cardinality(ch) # 1 \/ new_prefix \in trie.ends THEN new_prefix
      ELSE ExtendPrefix(trie, CHOOSE q \in ch : TRUE)

\* Trie::longest_common_prefix (trie.rs:144-204)
longest_common_prefix(trie, prefix) ==
  IF prefix = <<>> \/ prefix \notin trie.nodes THEN <<>>
  ELSE ExtendPrefix(trie, prefix)

RECURSIVE InsertAll(_, _)
InsertAll(trie, words) ==
  IF words = {} THEN trie
  ELSE LET w == CHOOSE x \in words : TRUE
       IN  InsertAll(insert(trie, w), words \ {w})

\* setup_completions (main.rs:122-133)
setup_completions ==
  InsertAll(TrieNew, {LIT.echo, LIT.exit, LIT.type} \cup ENV.executables)

\* the order of String: byte by byte, which is code point by code point
RECURSIVE LexLess(_, _)
LexLess(s, u) ==
  IF s = <<>> THEN u # <<>>
  ELSE IF u = <<>> THEN FALSE
  ELSE IF s[1] # u[1] THEN s[1] < u[1]
  ELSE LexLess(Tail(s), Tail(u))

\* c.sort() (main.rs:191) of the words get_completions returned
RECURSIVE sort(_)
sort(words) ==
  IF words = {} THEN <<>>
  ELSE LET m == CHOOSE x \in words : \A z \in words \ {x} : LexLess(x, z)
       IN  <<m>> \o sort(words \ {m})

\* Trie::search (trie.rs:45-63): true when the walk reaches, at the char
\* whose byte index plus one is the byte length of the word, a node with
\* is_end set
search(trie, word) ==
  \E i \in 1..Len(word) :
    /\ \A j \in 1..i : SubSeq(word, 1, j) \in trie.nodes
    /\ ByteIndex(word, i) + 1 = Len(as_bytes(word))
    /\ SubSeq(word, 1, i) \in trie.ends

\* Trie::starts_with (trie.rs:65-78)
starts_with(trie, prefix) == prefix \in trie.nodes

(***************************************************************************)
(* The trie as a state machine: words are inserted into a new Trie and     *)
(* looked up.                                                              *)
(***************************************************************************)
\* the words that are inserted and looked up: one or two chars, each a, b
\* or e-acute (two bytes in UTF-8)
TrieWords == SeqsUpTo({CH.a, CH.b, CH.e_acute}, 2) \ {<<>>}

\* Trie::new (trie.rs:26-30)
TrieInit ==
  /\ RestOff /\ LexOff /\ HistoryOff /\ StreamOff
  /\ tr_trie = TrieNew /\ tr_words = {}
  /\ tr_last = [op |-> "none", word |-> <<>>, result |-> FALSE]

\* what no call on the trie changes
TrieFrame ==
  UNCHANGED <<worldVars, writerVars, shellVars, editorVars, lexVars,
              historyVars, streamVars>>

\* insert(word)
TrieInsert ==
  \E word \in TrieWords :
    /\ Cardinality(tr_words \cup {word}) <= MaxInserts
    /\ tr_trie' = insert(tr_trie, word)
    /\ tr_words' = tr_words \cup {word}
    /\ tr_last' = [op |-> "insert", word |-> word, result |-> FALSE]
    /\ TrieFrame

\* search(word)
TrieSearch ==
  \E word \in TrieWords :
    /\ tr_last' = [op |-> "search", word |-> word, result |-> search(tr_trie, word)]
    /\ UNCHANGED <<tr_trie, tr_words>>
    /\ TrieFrame

\* starts_with(prefix)
TrieStartsWith ==
  \E prefix \in TrieWords :
    /\ tr_last' = [op |-> "starts_with", word |-> prefix,
                   result |-> starts_with(tr_trie, prefix)]
    /\ UNCHANGED <<tr_trie, tr_words>>
    /\ TrieFrame

\* the orders in which a HashMap<char, TrieNode> may iterate over its keys
TrieChars == {CH.a, CH.b, CH.e_acute}

IterOrders ==
  {o \in [1..Cardinality(TrieChars) -> TrieChars] :
     \A i, j \in DOMAIN o : i # j => o[i] # o[j]}

\* Trie::collect_words (trie.rs:106-114) as the Vec it fills: the word of the
\* node when is_end is set, then the words of each child in iteration order
RECURSIVE collect_words_vec(_, _, _), CollectChildren(_, _, _, _)
collect_words_vec(trie, prefix, order) ==
  (IF prefix \in trie.ends THEN <<prefix>> ELSE <<>>)
    \o CollectChildren(trie, prefix, order, 1)

CollectChildren(trie, prefix, order, i) ==
  IF i > Len(order) THEN <<>>
  ELSE (IF Append(prefix, order[i]) \in trie.nodes
        THEN collect_words_vec(trie, Append(prefix, order[i]), order)
        ELSE <<>>)
       \o CollectChildren(trie, prefix, order, i + 1)

\* Trie::get_completions (trie.rs:84-104) as the Vec it returns
get_completions_vec(trie, prefix, order) ==
  IF prefix = <<>> \/ prefix \notin trie.nodes THEN <<>>
  ELSE collect_words_vec(trie, prefix, order)

\* get_completions(prefix)
TrieCompletions ==
  \E prefix \in TrieWords \cup {<<>>}, order \in IterOrders :
    /\ tr_last' = [op |-> "get_completions", word |-> prefix,
                   result |-> get_completions_vec(tr_trie, prefix, order)]
    /\ UNCHANGED <<tr_trie, tr_words>>
    /\ TrieFrame

\* longest_common_prefix(prefix)
TrieLcp ==
  \E prefix \in TrieWords \cup {<<>>} :
    /\ tr_last' = [op |-> "longest_common_prefix", word |-> prefix,
                   result |-> longest_common_prefix(tr_trie, prefix)]
    /\ UNCHANGED <<tr_trie, tr_words>>
    /\ TrieFrame

TrieNext ==
  TrieInsert \/ TrieSearch \/ TrieStartsWith \/ TrieCompletions \/ TrieLcp

SpecTrie == TrieInit /\ [][TrieNext]_vars

(***************************************************************************)
(* Claims about the trie, checked under SpecTrie.                          *)
(***************************************************************************)
\* C20: after insert(w), for any word w whether its chars take one byte or
\* several, search(w) is true and starts_with(p) is true for every non-empty
\* prefix p of w; and search(x) is true only for words x that were inserted.
C20_InsertedWordsAreContained ==
  /\ tr_last.op = "search" => (tr_last.result <=> tr_last.word \in tr_words)
  /\ (/\ tr_last.op = "starts_with"
      /\ \E w \in tr_words : IsPrefix(tr_last.word, w)) => tr_last.result

\* the inserted words that begin with p
BeginWith(p) == {w \in tr_words : IsPrefix(p, w)}

\* C21: completions(p) is a subset of the inserted words that begin with p,
\* it is exactly that set when p is non-empty, it is empty when p is empty or
\* no inserted word begins with p, and no word appears twice in it.
C21_CompletionsAreTheWordsWithPrefix ==
  tr_last.op = "get_completions" =>
    LET p == tr_last.word
        r == tr_last.result
    IN  /\ Range(r) \subseteq BeginWith(p)
        /\ p # <<>> => Range(r) = BeginWith(p)
        /\ (p = <<>> \/ BeginWith(p) = {}) => r = <<>>
        /\ \A i, j \in DOMAIN r : i # j => r[i] # r[j]

\* C22: for a non-empty prefix p that some inserted word begins with,
\* longest_common_extension(p) is a string q that begins with p, that every
\* completion of p begins with, that passes no inserted word on the way from
\* p, and that is either an inserted word or cannot be extended by one char
\* that every completion of p still begins with.
C22_LongestCommonExtension ==
  (/\ tr_last.op = "longest_common_prefix"
   /\ tr_last.word # <<>>
   /\ BeginWith(tr_last.word) # {}) =>
    LET p == tr_last.word
        q == tr_last.result
    IN  /\ IsPrefix(p, q)
        /\ \A c \in BeginWith(p) : IsPrefix(q, c)
        /\ \A i \in Len(p)..(Len(q) - 1) : SubSeq(q, 1, i) \notin tr_words
        /\ \/ q \in tr_words
           \/ ~ \E ch \in TrieChars :
                  \A c \in BeginWith(p) : IsPrefix(Append(q, ch), c)

\* C32: longest_common_extension(p) of an inserted word p is p itself,
\* whatever longer inserted words continue from p and whatever the encoded
\* length of the last char of p.
C32_ExtensionOfAWordIsTheWord ==
  (tr_last.op = "longest_common_prefix" /\ tr_last.word \in tr_words) =>
    tr_last.result = tr_last.word

(***************************************************************************)
(* Streaming a child: write_cmd_output for CmdOutput::Stream               *)
(* (writer.rs:238-302).  The parent spawns one worker for the child's      *)
(* stdout and one for its stderr, waits for the child and reads the two    *)
(* flags; the workers are not joined.  Each step below is one access to    *)
(* what the threads share.                                                 *)
(***************************************************************************)
Streams == {"stdout", "stderr"}

\* what the child writes on a pipe
PipeData == SeqsUpTo({CH.a, LF}, MaxPipe)

\* the child is spawned and has written all its output into the pipes, the
\* flags are false (writer.rs:239, 243), the workers are spawned
\* (writer.rs:256, 272) and the parent is in child.wait() (writer.rs:288)
StreamInit ==
  /\ fs = <<>> /\ tty_out = <<>> /\ tty_err = <<>>
  /\ wr_redirection \in Redirections /\ wr_calls = <<>>
  /\ pc = "off" /\ input = <<>> /\ cmds_list = <<>> /\ index = 0
  /\ piped_stdin = None /\ cwd = <<>> /\ exit_code = None /\ prompts = 0
  /\ ran = <<>>
  /\ EditorOff /\ LexOff /\ TrieOff /\ HistoryOff
  /\ sw_pc = "waiting"
  /\ sw_pipe \in [Streams -> PipeData]
  /\ sw_exited = FALSE /\ sw_worker = WorkersNew
  /\ sw_end_lf = FALSE /\ sw_was_written = FALSE
  /\ sw_term = <<>> /\ sw_println = FALSE

StreamFrame ==
  UNCHANGED <<writerVars, shellVars, editorVars, lexVars, trieVars, historyVars>>

\* the child exits: its ends of the pipes are closed
ChildExits ==
  /\ sw_pc = "waiting" /\ ~sw_exited
  /\ sw_exited' = TRUE
  /\ UNCHANGED <<worldVars, sw_pc, sw_pipe, sw_worker, sw_end_lf, sw_was_written,
                 sw_term, sw_println>>
  /\ StreamFrame

\* reader.read(&mut buf) returns size > 0 (writer.rs:260, 276): some of the
\* bytes in the pipe, from its head
WorkerReads(s) ==
  /\ sw_worker[s].pc = "read" /\ sw_pipe[s] # <<>>
  /\ \E size \in 1..Len(sw_pipe[s]) :
       /\ sw_worker' = [sw_worker EXCEPT ![s].buf = SubSeq(sw_pipe[s], 1, size),
                                          ![s].pc = "store_lf"]
       /\ sw_pipe' = [sw_pipe EXCEPT ![s] = SubSeq(@, size + 1, Len(@))]
  /\ UNCHANGED <<worldVars, sw_pc, sw_exited, sw_end_lf, sw_was_written, sw_term,
                 sw_println>>
  /\ StreamFrame

\* reader.read(&mut buf) returns 0 at end-of-file, and `continue`
\* (writer.rs:260-263, 276-279)
WorkerReadsEof(s) ==
  /\ sw_worker[s].pc = "read" /\ sw_pipe[s] = <<>> /\ sw_exited
  /\ sw_worker[s].eof_reads < MaxEofReads
  /\ sw_worker' = [sw_worker EXCEPT ![s].eof_reads = @ + 1]
  /\ UNCHANGED <<worldVars, sw_pc, sw_pipe, sw_exited, sw_end_lf, sw_was_written,
                 sw_term, sw_println>>
  /\ StreamFrame

\* if buf[size - 1] == b'\n' { end_lf.store(true) } (writer.rs:265-267,
\* 281-283)
WorkerStoresLf(s) ==
  /\ sw_worker[s].pc = "store_lf"
  /\ sw_end_lf' = IF sw_worker[s].buf[Len(sw_worker[s].buf)] = LF
                    THEN TRUE ELSE sw_end_lf
  /\ sw_worker' = [sw_worker EXCEPT ![s].pc = "output"]
  /\ UNCHANGED <<worldVars, sw_pc, sw_pipe, sw_exited, sw_was_written, sw_term,
                 sw_println>>
  /\ StreamFrame

\* the bytes a call added to the terminal
TermAdded(w) ==
  SubSeq(w.out, Len(tty_out) + 1, Len(w.out))
    \o SubSeq(w.err, Len(tty_err) + 1, Len(w.err))

\* let written = writer.output(&buf[..size]) for the stdout worker,
\* writer.output_error(&buf[..size]) for the stderr worker (writer.rs:269, 285)
WorkerOutputs(s) ==
  /\ sw_worker[s].pc = "output"
  /\ LET r == IF s = "stdout" THEN output(wr_redirection, sw_worker[s].buf, World)
              ELSE output_error(wr_redirection, sw_worker[s].buf, World)
     IN  /\ SetWorld(r.w)
         /\ sw_term' = sw_term \o TermAdded(r.w)
         /\ sw_worker' = [sw_worker EXCEPT ![s].written = r.written,
                                            ![s].pc = "store_written"]
  /\ UNCHANGED <<sw_pc, sw_pipe, sw_exited, sw_end_lf, sw_was_written, sw_println>>
  /\ StreamFrame

\* was_written.store(written) (writer.rs:270, 286), and the loop goes round
WorkerStoresWritten(s) ==
  /\ sw_worker[s].pc = "store_written"
  /\ sw_was_written' = sw_worker[s].written
  /\ sw_worker' = [sw_worker EXCEPT ![s].pc = "read"]
  /\ UNCHANGED <<worldVars, sw_pc, sw_pipe, sw_exited, sw_end_lf, sw_term,
                 sw_println>>
  /\ StreamFrame

\* child.wait() returns, the parent loads the flags and prints a newline
\* when was_written is set and end_lf is not (writer.rs:288, 294-296)
ParentReturns ==
  /\ sw_pc = "waiting" /\ sw_exited
  /\ sw_pc' = "returned"
  /\ sw_println' = (sw_was_written /\ ~sw_end_lf)
  /\ tty_out' = IF sw_println' THEN tty_out \o <<LF>> ELSE tty_out
  /\ sw_term' = IF sw_println' THEN sw_term \o <<LF>> ELSE sw_term
  /\ UNCHANGED <<fs, tty_err, sw_pipe, sw_exited, sw_worker, sw_end_lf,
                 sw_was_written>>
  /\ StreamFrame

StreamNext ==
  \/ ChildExits \/ ParentReturns
  \/ \E s \in Streams :
       \/ WorkerReads(s) \/ WorkerReadsEof(s) \/ WorkerStoresLf(s)
       \/ WorkerOutputs(s) \/ WorkerStoresWritten(s)

SpecStream == StreamInit /\ [][StreamNext]_vars

(***************************************************************************)
(* Claims about streaming, checked under SpecStream.                       *)
(***************************************************************************)
\* C29: once a worker's pipe is at end-of-file, a read of the worker returns
\* 0 bytes at most once: after it the worker reads no more.
C29_WorkerStopsAtEof ==
  \A s \in Streams : sw_worker[s].eof_reads <= 1

\* every byte the child wrote has been forwarded and recorded
Forwarded ==
  \A s \in Streams : sw_pipe[s] = <<>> /\ sw_worker[s].pc = "read"

\* C30: when the child has exited and all its output has been forwarded, the
\* parent prints the extra newline exactly when some byte was written to the
\* terminal and the last byte written to it is not a line feed, whatever
\* the chunks were that the output came in.
C30_NewlineDependsOnLastByte ==
  [][(sw_pc = "waiting" /\ sw_pc' = "returned" /\ Forwarded) =>
       (sw_println' <=> (sw_term # <<>> /\ sw_term[Len(sw_term)] # LF))]_vars

\* worker s has gone round its loop at least once and is back at the read
Recorded(s) == sw_worker[s].pc = "read" /\ sw_worker[s].buf # <<>>

\* C34: a flag a worker stores to is stored to by that worker alone, so it
\* holds what the worker last recorded: once worker s has recorded a chunk,
\* its was-written flag is the value s stored last, and its ends-with-LF
\* flag is set if the last chunk of s ended with a line feed.
C34_FlagsHoldWhatTheirWorkerRecorded ==
  \A s \in Streams :
    Recorded(s) =>
      /\ sw_was_written = sw_worker[s].written
      /\ sw_worker[s].buf[Len(sw_worker[s].buf)] = LF => sw_end_lf

\* worker s stores to a flag or writes a chunk in this step
WorkerActs(s) ==
  /\ sw_worker[s].pc \in {"store_lf", "output", "store_written"}
  /\ sw_worker'[s].pc # sw_worker[s].pc

\* C35: when the parent reads the flags every chunk of the child has been
\* forwarded and recorded, and after the read no worker writes a chunk or
\* stores to a flag.
C35_WaitIsJoinEquivalent ==
  [][/\ (sw_pc = "waiting" /\ sw_pc' = "returned") => Forwarded
     /\ sw_pc = "returned" =>
          /\ \A s \in Streams : ~WorkerActs(s)
          /\ UNCHANGED <<sw_term, sw_end_lf, sw_was_written>>]_vars

\* worker s writes its chunk in this step and the redirection sends the
\* stream of s to the file
ChunkToFile(s) ==
  /\ sw_worker[s].pc = "output" /\ sw_worker'[s].pc = "store_written"
  /\ wr_redirection.kind = (IF s = "stdout" THEN "Stdout" ELSE "Stderr")

\* C37: every chunk of a stream redirected to a file is added at the end of
\* what the file holds, nothing else is added and nothing the file holds is
\* changed, whether append is set or not; the file does not exist before
\* the command, so it holds the chunks in the order they arrived.
C37_ChunksAreConcatenatedInTheFile ==
  [][\A s \in Streams :
       ChunkToFile(s) =>
         FileAt(fs', wr_redirection.file_path).data =
           FileAt(fs, wr_redirection.file_path).data \o sw_worker[s].buf]_vars

(***************************************************************************)
(* The history and its cursor (history.rs).                                *)
(***************************************************************************)
\* History::push (history.rs:20-24)
push(stack, command_str) == Append(stack, command_str)

\* Vec::get(index), the index counting from 0
Get(stack, i) == IF i < Len(stack) THEN Some(stack[i + 1]) ELSE None

\* HistoryNavigation::from_size (history.rs:74-79)
from_size(size) == [pointer |-> size, size |-> size]

\* a next that moves on without looking at the end of the history
next_NoEndCheck(nav, stack) ==
  [nav |-> [nav EXCEPT !.pointer = @ + 1],
   result |-> Get(stack, nav.pointer + 1)]

\* HistoryNavigation::next (history.rs:81-89): [nav, result]
next(nav, stack) ==
  IF nav.pointer = nav.size THEN [nav |-> nav, result |-> None]
  ELSE [nav |-> [nav EXCEPT !.pointer = @ + 1],
        result |-> Get(stack, nav.pointer + 1)]

\* HistoryNavigation::previous (history.rs:91-97): [nav, result]
previous(nav, stack) ==
  LET pointer == IF nav.pointer # 0 THEN nav.pointer - 1 ELSE nav.pointer
  IN  [nav |-> [nav EXCEPT !.pointer = pointer], result |-> Get(stack, pointer)]

\* the lines a history holds
HistoryLines == {LIT.echo, LIT.exit}

\* History::new (history.rs:10-12); no cursor exists yet
HistoryInit ==
  /\ RestOff /\ LexOff /\ TrieOff /\ StreamOff
  /\ hist_stack = <<>>
  /\ hn = from_size(0)
  /\ hn_last = [op |-> "new", result |-> None]

\* whether a cursor exists: read_input holds it from from_size to its return
\* and borrows the history for that time (input.rs:15, 23)
CursorAlive == hn_last.op \in {"from_size", "previous", "next"}

HistoryFrame ==
  UNCHANGED <<worldVars, writerVars, shellVars, editorVars, lexVars, trieVars,
              streamVars>>

\* history.push(line) between two calls of read_input: the cursor of the
\* last call is gone
HistPush ==
  \E line \in HistoryLines :
    /\ hn_last.op # "none" /\ Len(hist_stack) < MaxHistory
    /\ hist_stack' = push(hist_stack, line)
    /\ hn_last' = [op |-> "push", result |-> None]
    /\ UNCHANGED hn
    /\ HistoryFrame

\* HistoryNavigation::from_size(history.stack.len()) (input.rs:23)
HnFromSize ==
  /\ hn_last.op # "none" /\ ~CursorAlive
  /\ hn' = from_size(Len(hist_stack))
  /\ hn_last' = [op |-> "from_size", result |-> None]
  /\ UNCHANGED hist_stack
  /\ HistoryFrame

\* history_nav.previous(&history.stack) (input.rs:123)
HnPrevious ==
  /\ CursorAlive
  /\ hn' = previous(hn, hist_stack).nav
  /\ hn_last' = [op |-> "previous", result |-> previous(hn, hist_stack).result]
  /\ UNCHANGED hist_stack
  /\ HistoryFrame

\* history_nav.next(&history.stack) (input.rs:132)
HnNext ==
  /\ CursorAlive
  /\ hn' = next(hn, hist_stack).nav
  /\ hn_last' = [op |-> "next", result |-> next(hn, hist_stack).result]
  /\ UNCHANGED hist_stack
  /\ HistoryFrame

HistoryNext == HistPush \/ HnFromSize \/ HnPrevious \/ HnNext

SpecHistory == HistoryInit /\ [][HistoryNext]_vars

(***************************************************************************)
(* Claims about the history cursor, checked under SpecHistory.             *)
(***************************************************************************)
\* C25: for a history of any size, 0 included, and a cursor created with
\* p = size, 0 <= p <= size holds after every sequence of calls; previous
\* decrements p exactly when p > 0 and next increments p exactly when
\* p < size; each returns the entry at the new p, which for next is no entry
\* exactly when the new p is size; and no call changes the history.
C25_CursorStaysInRange ==
  /\ [](CursorAlive => hn.size = Len(hist_stack) /\ hn.pointer \in 0..hn.size)
  /\ [][/\ hn_last'.op = "from_size" => hn'.pointer = Len(hist_stack)
        /\ hn_last'.op = "previous" =>
            /\ hn'.pointer =
                 IF hn.pointer > 0 THEN hn.pointer - 1 ELSE hn.pointer
            /\ hn_last'.result = Get(hist_stack, hn'.pointer)
        /\ hn_last'.op = "next" =>
            /\ hn'.pointer =
                 IF hn.pointer < hn.size THEN hn.pointer + 1 ELSE hn.pointer
            /\ hn_last'.result = Get(hist_stack, hn'.pointer)
            /\ hn_last'.result = None <=> hn'.pointer = hn.size
        /\ hn_last'.op \in {"previous", "next"} =>
            hist_stack' = hist_stack /\ hn'.size = hn.size]_vars

\* C25's case: on a history of two lines the cursor went back to the first
\* line, forward to the second and then past the end, where next returns no
\* entry
C25_Witness ==
  /\ hist_stack = <<LIT.echo, LIT.exit>>
  /\ hn = [pointer |-> 2, size |-> 2]
  /\ hn_last = [op |-> "next", result |-> None]

(***************************************************************************)
(* The line editor: read_input (main.rs:164-265), one action for each way  *)
(* an iteration of its loop can go.                                        *)
(***************************************************************************)
\* the bytes the editor gives a meaning to (main.rs:181-241)
KEY == [tab |-> 9, lf |-> 10, cr |-> 13, etx |-> 3, bs |-> 8, del |-> 127]

\* AnsiCode::as_str (ansi_codes.rs:28-43) and the literals of print!
ANSI == [CRLF |-> <<13, 10>>, BEL |-> <<7>>, MoveCursorLeft |-> <<27, 91, 68>>,
         clear_line |-> <<13, 27, 91, 75>>, prompt |-> <<CH.dollar, SPACE>>,
         list_end |-> <<10, 13, CH.dollar, SPACE>>]

\* the bytes that are typed
Keys == {KEY.tab, KEY.lf, KEY.cr, KEY.etx, KEY.bs, KEY.del,
         CH.e, CH.t, CH.c, CH.bad}

\* String::from_utf8: an error unless the bytes are valid UTF-8
from_utf8(buf) == [ok |-> Utf8Valid(buf), value |-> from_utf8_lossy(buf)]

EditorInit ==
  /\ fs = <<>> /\ tty_out = <<>> /\ tty_err = <<>>
  /\ wr_redirection = RedirNone /\ wr_calls = <<>>
  /\ pc = "off" /\ input = <<>> /\ cmds_list = <<>> /\ index = 0
  /\ piped_stdin = None /\ cwd = <<>> /\ exit_code = None /\ prompts = 0
  /\ ran = <<>>
  /\ EditorOff /\ LexOff /\ TrieOff /\ HistoryOff /\ StreamOff

\* what no step of the editor changes; the read_input of main.rs has no
\* sequence state
EditorFrame ==
  UNCHANGED <<worldVars, writerVars, shellVars, lexVars, trieVars,
              historyVars, streamVars, sequence_state, ed_read>>

\* read_input up to its loop: enable_raw_mode (main.rs:165-171)
EdEnter ==
  /\ ed_pc = "idle"
  /\ ed_pc' = "reading"
  /\ raw_mode' = TRUE
  /\ UNCHANGED <<ed_input, tab_completions, ed_result, ed_shown, ed_keys, ed_buf>>
  /\ EditorFrame

\* read_exact fails and `?` returns the error (main.rs:174)
EdReadFails ==
  /\ ed_pc = "reading"
  /\ ed_pc' = "returned"
  /\ ed_result' = [kind |-> "IoError", line |-> <<>>]
  /\ UNCHANGED <<raw_mode, ed_input, tab_completions, ed_shown, ed_keys, ed_buf>>
  /\ EditorFrame

\* read_exact gives the byte b (main.rs:174)
Reads(b) ==
  /\ ed_pc = "reading" /\ ed_keys < MaxKeys
  /\ b \in Keys
  /\ ed_keys' = ed_keys + 1
  /\ ed_buf' = b
  /\ EditorFrame

\* the head of the loop without its reset: the context outlives the byte
TabAfterReset_NeverResets(b) == tab_completions

\* tab_completions after the reset at the head of the loop (main.rs:176-178)
TabAfterReset(b) ==
  IF tab_completions.enabled /\ b # KEY.tab THEN TabNew ELSE tab_completions

\* a TAB with the context enabled prints the list (main.rs:181-188)
EdTabLists ==
  /\ Reads(KEY.tab) /\ tab_completions.enabled
  /\ ed_shown' = ANSI.CRLF
                   \o as_bytes(Join(tab_completions.completions, <<SPACE, SPACE>>))
                   \o ANSI.list_end \o as_bytes(from_utf8_lossy(ed_input))
  /\ UNCHANGED <<ed_pc, raw_mode, ed_input, tab_completions, ed_result>>

\* a TAB with the context disabled completes the buffer (main.rs:189-230)
EdTabCompletes ==
  /\ Reads(KEY.tab) /\ ~tab_completions.enabled
  /\ IF ~from_utf8(ed_input).ok THEN
       \* `?` returns the error of String::from_utf8 (main.rs:190)
       /\ ed_pc' = "returned"
       /\ ed_result' = [kind |-> "Utf8Error", line |-> <<>>]
       /\ UNCHANGED <<raw_mode, ed_input, tab_completions, ed_shown>>
     ELSE
       LET c == sort(get_completions(setup_completions, from_utf8(ed_input).value))
           prefix == from_utf8_lossy(ed_input)
           lcp == longest_common_prefix(setup_completions, prefix)
       IN  /\ UNCHANGED <<ed_pc, raw_mode, ed_result>>
           /\ IF Len(c) = 0 THEN
                /\ ed_shown' = ANSI.BEL
                /\ UNCHANGED <<ed_input, tab_completions>>
              ELSE IF Len(c) = 1 THEN
                /\ ed_shown' = ANSI.clear_line \o ANSI.prompt \o as_bytes(c[1]) \o <<SPACE>>
                /\ ed_input' = as_bytes(c[1]) \o <<SPACE>>
                /\ UNCHANGED tab_completions
              ELSE
                /\ tab_completions' = [enabled |-> TRUE, completions |-> c]
                /\ IF prefix = lcp THEN
                     /\ ed_shown' = ANSI.BEL
                     /\ UNCHANGED ed_input
                   ELSE
                     /\ ed_shown' = ANSI.clear_line \o ANSI.prompt \o as_bytes(lcp)
                     /\ ed_input' = as_bytes(lcp)

\* newline or carriage return: break, disable_raw_mode, and the buffer as a
\* String (main.rs:232-235, 262-264)
EdSubmit ==
  /\ \E b \in {KEY.lf, KEY.cr} : Reads(b)
  /\ tab_completions' = TabNew
  /\ ed_shown' = ANSI.CRLF
  /\ raw_mode' = FALSE
  /\ ed_pc' = "returned"
  /\ ed_result' = IF from_utf8(ed_input).ok
                    THEN [kind |-> "Some", line |-> from_utf8(ed_input).value]
                    ELSE [kind |-> "Utf8Error", line |-> <<>>]
  /\ UNCHANGED ed_input

\* Ctrl-C: return Ok(None) (main.rs:236-239)
EdCancel ==
  /\ Reads(KEY.etx)
  /\ tab_completions' = TabNew
  /\ ed_shown' = ANSI.CRLF
  /\ ed_pc' = "returned"
  /\ ed_result' = [kind |-> "None", line |-> <<>>]
  /\ UNCHANGED <<raw_mode, ed_input>>

\* backspace or delete (main.rs:241-253)
EdErase ==
  /\ \E b \in {KEY.bs, KEY.del} : Reads(b)
  /\ tab_completions' = TabNew
  /\ IF ed_input # <<>> THEN
       /\ ed_input' = SubSeq(ed_input, 1, Len(ed_input) - 1)
       /\ ed_shown' = ANSI.MoveCursorLeft \o <<SPACE>> \o ANSI.MoveCursorLeft
     ELSE
       /\ ed_shown' = <<>>
       /\ UNCHANGED ed_input
  /\ UNCHANGED <<ed_pc, raw_mode, ed_result>>

\* any other byte is echoed and pushed (main.rs:254-258)
EdChar ==
  /\ \E o \in Keys \ {KEY.tab, KEY.lf, KEY.cr, KEY.etx, KEY.bs, KEY.del} :
       /\ Reads(o)
       /\ tab_completions' = TabAfterReset(o)
       /\ ed_shown' = as_bytes(from_utf8_lossy(<<o>>))
       /\ ed_input' = ed_input \o <<o>>
  /\ UNCHANGED <<ed_pc, raw_mode, ed_result>>

EditorNext ==
  \/ EdEnter \/ EdReadFails \/ EdTabLists \/ EdTabCompletes
  \/ EdSubmit \/ EdCancel \/ EdErase \/ EdChar

SpecEditor == EditorInit /\ [][EditorNext]_vars

(***************************************************************************)
(* Claims about the line editor, checked under SpecEditor.                 *)
(***************************************************************************)
\* C2: whenever read_input returns, by a submitted line, by Ctrl-C, or by an
\* I/O or UTF-8 error, the terminal is back in cooked mode.
C2_RawModeReleasedOnReturn == ed_pc = "returned" => ~raw_mode

\* an iteration of the loop has read the byte b
Typed(b) == ed_keys' = ed_keys + 1 /\ ed_buf' = b

\* the completions of the whole buffer
BufferCompletions ==
  get_completions(setup_completions, from_utf8_lossy(ed_input))

\* C23: a TAB read while the context is not enabled leaves the buffer
\* unchanged, rings the bell and leaves the context disabled when the buffer
\* has no completion; makes the buffer the completion followed by one space,
\* the context staying disabled, when it has exactly one; and with two or
\* more makes the buffer the longest common extension with no space after
\* it (ringing the bell when that is the buffer already) and enables the
\* context, which holds those completions.
C23_TabActsOnCompletionCount ==
  [][(Typed(KEY.tab) /\ ~tab_completions.enabled) =>
       LET c == BufferCompletions
           lcp == longest_common_prefix(setup_completions,
                                        from_utf8_lossy(ed_input))
       IN  /\ c = {} =>
                /\ ed_input' = ed_input
                /\ ed_shown' = ANSI.BEL
                /\ ~tab_completions'.enabled
           /\ Cardinality(c) = 1 =>
                /\ \E w \in c : ed_input' = as_bytes(w) \o <<SPACE>>
                /\ ~tab_completions'.enabled
           /\ Cardinality(c) >= 2 =>
                /\ ed_input' = as_bytes(lcp)
                /\ ed_input' = ed_input => ed_shown' = ANSI.BEL
                /\ tab_completions'.enabled
                /\ Range(tab_completions'.completions) = c]_vars

\* the step printed a completion list: a line break followed by more
ListPrinted ==
  /\ ed_keys' = ed_keys + 1
  /\ IsPrefix(ANSI.CRLF, ed_shown') /\ Len(ed_shown') > Len(ANSI.CRLF)

\* C24: the completion list is printed only by a TAB that directly follows a
\* TAB that found two or more completions or that listed them, and every
\* such TAB prints it: the completions joined by two spaces, then the prompt
\* and the buffer on a new line, with the buffer and the context unchanged;
\* a byte other than TAB read while the context is enabled disables the
\* context and clears its completions, so that a TAB after it lists nothing.
C24_ListOnlyOnSecondTab ==
  [][/\ ListPrinted =>
          /\ ed_buf' = KEY.tab /\ ed_buf = KEY.tab
          /\ tab_completions.enabled
          /\ Len(tab_completions.completions) >= 2
          /\ ed_shown' = ANSI.CRLF
                \o as_bytes(Join(tab_completions.completions, <<SPACE, SPACE>>))
                \o ANSI.list_end \o as_bytes(from_utf8_lossy(ed_input))
          /\ UNCHANGED <<ed_input, tab_completions>>
     /\ (Typed(KEY.tab) /\ tab_completions.enabled) => ListPrinted
     /\ (\E b \in Keys \ {KEY.tab} : Typed(b)) => tab_completions' = TabNew
     /\ (Typed(KEY.tab) /\ ed_buf # KEY.tab) => ~ListPrinted]_vars

\* C24's case: e, TAB, TAB has been typed: the first TAB found echo and exit
\* and rang the bell, the second listed them and kept the buffer
C24_Witness ==
  /\ ed_pc = "reading" /\ ed_keys = 3 /\ ed_buf = KEY.tab
  /\ ed_input = <<CH.e>>
  /\ tab_completions = [enabled |-> TRUE, completions |-> <<LIT.echo, LIT.exit>>]
  /\ ed_shown = ANSI.CRLF \o as_bytes(Join(<<LIT.echo, LIT.exit>>, <<SPACE, SPACE>>))
                  \o ANSI.list_end \o <<CH.e>>

\* C26: when read_input returns after a newline or a carriage return was
\* typed, whatever bytes were typed before it, it returns Some(line) with
\* the bytes of the buffer as the line; and no byte that is typed makes
\* read_input return an error, which would end the process through the `?`
\* of main.
C26_EveryTypedLineIsSubmitted ==
  ed_pc = "returned" =>
    /\ ed_buf \in {KEY.lf, KEY.cr} =>
         ed_result.kind = "Some" /\ as_bytes(ed_result.line) = ed_input
    /\ ed_result.kind # "Utf8Error"

(***************************************************************************)
(* The line editor with history: read_input (input.rs:15-154), called with *)
(* the completions of setup_completions and some history, one action for   *)
(* each way an iteration of its loop can go.                               *)
(***************************************************************************)
\* the bytes of the arrow-key sequences (input.rs:113, 117, 121, 130)
SEQ == [esc |-> 27, bracket |-> 91, up |-> 65, down |-> 66]

\* the bytes that are typed
InputKeys == {KEY.tab, KEY.lf, KEY.etx, KEY.bs, SEQ.esc, SEQ.bracket, SEQ.up,
              SEQ.down, CH.e}

\* the histories read_input is called with
InputHistories == {<<>>, <<LIT.echo>>, <<LIT.echo, LIT.exit>>}

\* the last three of the bytes s
Last3(s) == IF Len(s) > 3 THEN SubSeq(s, Len(s) - 2, Len(s)) ELSE s

InputInit ==
  /\ fs = <<>> /\ tty_out = <<>> /\ tty_err = <<>>
  /\ wr_redirection = RedirNone /\ wr_calls = <<>>
  /\ pc = "off" /\ input = <<>> /\ cmds_list = <<>> /\ index = 0
  /\ piped_stdin = None /\ cwd = <<>> /\ exit_code = None /\ prompts = 0
  /\ ran = <<>>
  /\ EditorOff /\ LexOff /\ TrieOff /\ StreamOff
  /\ hist_stack \in InputHistories
  /\ hn = from_size(0) /\ hn_last = [op |-> "none", result |-> None]

\* what no step of read_input changes: the history is borrowed immutably
InputFrame ==
  UNCHANGED <<worldVars, writerVars, shellVars, lexVars, trieVars, streamVars,
              hist_stack, hn_last>>

\* read_input up to its loop: the locals, the cursor past the end of the
\* history, enable_raw_mode (input.rs:16-25)
InEnter ==
  /\ ed_pc = "idle"
  /\ ed_pc' = "reading"
  /\ raw_mode' = TRUE
  /\ sequence_state' = "Normal"
  /\ hn' = from_size(Len(hist_stack))
  /\ UNCHANGED <<ed_input, tab_completions, ed_result, ed_shown, ed_keys, ed_buf,
                 ed_read>>
  /\ InputFrame

\* read_exact fails and `?` returns the error (input.rs:28)
InReadFails ==
  /\ ed_pc = "reading"
  /\ ed_pc' = "returned"
  /\ ed_result' = [kind |-> "IoError", line |-> <<>>]
  /\ UNCHANGED <<raw_mode, ed_input, tab_completions, ed_shown, ed_keys, ed_buf,
                 sequence_state, ed_read, hn>>
  /\ InputFrame

\* read_exact gives the byte b (input.rs:28)
InReads(b) ==
  /\ ed_pc = "reading" /\ ed_keys < MaxInputKeys
  /\ b \in InputKeys
  /\ ed_keys' = ed_keys + 1
  /\ ed_buf' = b
  /\ ed_read' = Last3(Append(ed_read, b))
  /\ InputFrame

\* a TAB with the context enabled prints the list (input.rs:36-44)
InTabLists ==
  /\ InReads(KEY.tab) /\ tab_completions.enabled
  /\ sequence_state' = "Normal"
  /\ ed_shown' = ANSI.CRLF
                   \o as_bytes(Join(tab_completions.completions, <<SPACE, SPACE>>))
                   \o ANSI.list_end \o as_bytes(from_utf8_lossy(ed_input))
  /\ UNCHANGED <<ed_pc, raw_mode, ed_input, tab_completions, ed_result, hn>>

\* a TAB with the context disabled completes the buffer (input.rs:45-88)
InTabCompletes ==
  /\ InReads(KEY.tab) /\ ~tab_completions.enabled
  /\ sequence_state' = "Normal"
  /\ UNCHANGED hn
  /\ IF ~from_utf8(ed_input).ok THEN
       \* `?` returns the error of String::from_utf8 (input.rs:47)
       /\ ed_pc' = "returned"
       /\ ed_result' = [kind |-> "Utf8Error", line |-> <<>>]
       /\ UNCHANGED <<raw_mode, ed_input, tab_completions, ed_shown>>
     ELSE
       LET c == sort(get_completions(setup_completions, from_utf8(ed_input).value))
           prefix == from_utf8_lossy(ed_input)
           lcp == longest_common_prefix(setup_completions, prefix)
       IN  /\ UNCHANGED <<ed_pc, raw_mode, ed_result>>
           /\ IF Len(c) = 0 THEN
                /\ ed_shown' = ANSI.BEL
                /\ UNCHANGED <<ed_input, tab_completions>>
              ELSE IF Len(c) = 1 THEN
                /\ ed_shown' = ANSI.clear_line \o ANSI.prompt \o as_bytes(c[1]) \o <<SPACE>>
                /\ ed_input' = as_bytes(c[1]) \o <<SPACE>>
                /\ UNCHANGED tab_completions
              ELSE
                /\ tab_completions' = [enabled |-> TRUE, completions |-> c]
                /\ IF prefix = lcp THEN
                     /\ ed_shown' = ANSI.BEL
                     /\ UNCHANGED ed_input
                   ELSE
                     /\ ed_shown' = ANSI.clear_line \o ANSI.prompt \o as_bytes(lcp)
                     /\ ed_input' = as_bytes(lcp)

\* newline or carriage return: break, disable_raw_mode, and the buffer as a
\* String (input.rs:89-92, 151-153)
InSubmit ==
  /\ InReads(KEY.lf)
  /\ tab_completions' = TabNew
  /\ ed_shown' = ANSI.CRLF
  /\ raw_mode' = FALSE
  /\ ed_pc' = "returned"
  /\ ed_result' = IF from_utf8(ed_input).ok
                    THEN [kind |-> "Some", line |-> from_utf8(ed_input).value]
                    ELSE [kind |-> "Utf8Error", line |-> <<>>]
  /\ UNCHANGED <<ed_input, sequence_state, hn>>

\* Ctrl-C: return Ok(None) (input.rs:93-96)
InCancel ==
  /\ InReads(KEY.etx)
  /\ tab_completions' = TabNew
  /\ ed_shown' = ANSI.CRLF
  /\ ed_pc' = "returned"
  /\ ed_result' = [kind |-> "None", line |-> <<>>]
  /\ UNCHANGED <<raw_mode, ed_input, sequence_state, hn>>

\* backspace (input.rs:98-111)
InErase ==
  /\ InReads(KEY.bs)
  /\ tab_completions' = TabNew
  /\ sequence_state' = "Normal"
  /\ IF ed_input # <<>> THEN
       /\ ed_input' = SubSeq(ed_input, 1, Len(ed_input) - 1)
       /\ ed_shown' = ANSI.MoveCursorLeft \o <<SPACE>> \o ANSI.MoveCursorLeft
     ELSE
       /\ ed_shown' = <<>>
       /\ UNCHANGED ed_input
  /\ UNCHANGED <<ed_pc, raw_mode, ed_result, hn>>

\* ESC in the state Normal (input.rs:113-115)
InEsc ==
  /\ InReads(SEQ.esc) /\ sequence_state = "Normal"
  /\ tab_completions' = TabNew
  /\ sequence_state' = "ESCReceived"
  /\ ed_shown' = <<>>
  /\ UNCHANGED <<ed_pc, raw_mode, ed_input, ed_result, hn>>

\* `[` after ESC (input.rs:117-119)
InBracket ==
  /\ InReads(SEQ.bracket) /\ sequence_state = "ESCReceived"
  /\ tab_completions' = TabNew
  /\ sequence_state' = "BracketReceived"
  /\ ed_shown' = <<>>
  /\ UNCHANGED <<ed_pc, raw_mode, ed_input, ed_result, hn>>

\* InUp with the entry shown taken into the buffer
InUp_ReplacesBuffer ==
  /\ InReads(SEQ.up) /\ sequence_state = "BracketReceived"
  /\ tab_completions' = TabNew
  /\ sequence_state' = "Normal"
  /\ hn' = previous(hn, hist_stack).nav
  /\ IF IsSome(previous(hn, hist_stack).result)
       THEN /\ ed_shown' = ANSI.clear_line \o ANSI.prompt
                             \o as_bytes(Unwrap(previous(hn, hist_stack).result))
            /\ ed_input' = as_bytes(Unwrap(previous(hn, hist_stack).result))
       ELSE ed_shown' = <<>> /\ UNCHANGED ed_input
  /\ UNCHANGED <<ed_pc, raw_mode, ed_result>>

\* the up arrow: `A` after ESC `[` (input.rs:121-128)
InUp ==
  /\ InReads(SEQ.up) /\ sequence_state = "BracketReceived"
  /\ tab_completions' = TabNew
  /\ sequence_state' = "Normal"
  /\ hn' = previous(hn, hist_stack).nav
  /\ ed_shown' = IF IsSome(previous(hn, hist_stack).result)
                   THEN ANSI.clear_line \o ANSI.prompt
                          \o as_bytes(Unwrap(previous(hn, hist_stack).result))
                   ELSE <<>>
  /\ UNCHANGED <<ed_pc, raw_mode, ed_input, ed_result>>

\* the down arrow: `B` after ESC `[` (input.rs:130-141)
InDown ==
  /\ InReads(SEQ.down) /\ sequence_state = "BracketReceived"
  /\ tab_completions' = TabNew
  /\ sequence_state' = "Normal"
  /\ hn' = next(hn, hist_stack).nav
  /\ ed_shown' = ANSI.clear_line \o ANSI.prompt
                   \o (IF IsSome(next(hn, hist_stack).result)
                         THEN as_bytes(Unwrap(next(hn, hist_stack).result))
                         ELSE as_bytes(from_utf8_lossy(ed_input)))
  /\ UNCHANGED <<ed_pc, raw_mode, ed_input, ed_result>>

\* the byte o falls through to the last arm (input.rs:35-141): it is none
\* of the bytes with an arm of their own, and no guard of a sequence arm
\* holds for it
IsOther(o) ==
  /\ o \notin {KEY.tab, KEY.lf, KEY.cr, KEY.etx, KEY.bs, KEY.del}
  /\ ~(o = SEQ.esc /\ sequence_state = "Normal")
  /\ ~(o = SEQ.bracket /\ sequence_state = "ESCReceived")
  /\ ~(o \in {SEQ.up, SEQ.down} /\ sequence_state = "BracketReceived")

\* InChar with the sequence state left as it is
InChar_KeepsSequence ==
  \E o \in InputKeys :
    /\ IsOther(o) /\ InReads(o)
    /\ tab_completions' = TabAfterReset(o)
    /\ ed_shown' = as_bytes(from_utf8_lossy(<<o>>))
    /\ ed_input' = ed_input \o <<o>>
    /\ UNCHANGED <<ed_pc, raw_mode, ed_result, hn, sequence_state>>

\* any other byte is echoed and pushed (input.rs:142-147)
InChar ==
  \E o \in InputKeys :
    /\ IsOther(o) /\ InReads(o)
    /\ tab_completions' = TabAfterReset(o)
    /\ sequence_state' = "Normal"
    /\ ed_shown' = as_bytes(from_utf8_lossy(<<o>>))
    /\ ed_input' = ed_input \o <<o>>
    /\ UNCHANGED <<ed_pc, raw_mode, ed_result, hn>>

InputNext ==
  \/ InEnter \/ InReadFails \/ InTabLists \/ InTabCompletes
  \/ InSubmit \/ InCancel \/ InErase
  \/ InEsc \/ InBracket \/ InUp \/ InDown \/ InChar

SpecInput == InputInit /\ [][InputNext]_vars

(***************************************************************************)
(* Claims about the editor with history, checked under SpecInput.          *)
(***************************************************************************)
\* the byte b is the next byte of an arrow-key sequence
Continues(b) ==
  \/ sequence_state = "Normal" /\ b = SEQ.esc
  \/ sequence_state = "ESCReceived" /\ b = SEQ.bracket
  \/ sequence_state = "BracketReceived" /\ b \in {SEQ.up, SEQ.down}

\* the step moves the history cursor or redraws the line
Navigates(b) ==
  \/ hn' # hn
  \/ b \in {SEQ.up, SEQ.down} /\ IsPrefix(ANSI.clear_line, ed_shown')

\* a byte with no editing meaning of its own
Ordinary(b) == b \notin {KEY.tab, KEY.lf, KEY.cr, KEY.etx, KEY.bs, KEY.del}

\* C33: a step navigates the history only when the last three bytes read
\* are ESC, `[`, `A` (then it is previous) or ESC, `[`, `B` (then it is
\* next); a byte that continues a sequence is neither echoed nor appended
\* to the buffer; a byte that does not continue a sequence leaves the
\* recogniser in Normal when the editor reads on, and if it is an ordinary
\* byte it is echoed and appended and the cursor stays.
C33_ArrowSequencesAreRecognised ==
  [][\A b \in InputKeys :
       Typed(b) =>
         /\ Navigates(b) =>
              /\ b \in {SEQ.up, SEQ.down}
              /\ ed_read' = <<SEQ.esc, SEQ.bracket, b>>
              /\ hn' = IF b = SEQ.up THEN previous(hn, hist_stack).nav
                                     ELSE next(hn, hist_stack).nav
         /\ Continues(b) =>
              /\ ed_input' = ed_input
              /\ ed_shown' # as_bytes(from_utf8_lossy(<<b>>))
              /\ b \in {SEQ.esc, SEQ.bracket} => ed_shown' = <<>>
         /\ (~Continues(b) /\ ed_pc' = "reading") => sequence_state' = "Normal"
         /\ (~Continues(b) /\ Ordinary(b)) =>
              /\ ed_shown' = as_bytes(from_utf8_lossy(<<b>>))
              /\ ed_input' = Append(ed_input, b)
              /\ hn' = hn]_vars

\* C33's case: with the history [echo], `[` and then ESC, `[`, `A` have been
\* typed: the first `[` is in the buffer, the sequence is not, the cursor is
\* on echo, which is shown, and the recogniser is back in Normal
C33_Witness ==
  /\ ed_pc = "reading" /\ ed_keys = 4
  /\ ed_read = <<SEQ.esc, SEQ.bracket, SEQ.up>>
  /\ ed_input = <<SEQ.bracket>>
  /\ hist_stack = <<LIT.echo>> /\ hn = [pointer |-> 0, size |-> 1]
  /\ ed_shown = ANSI.clear_line \o ANSI.prompt \o LIT.echo
  /\ sequence_state = "Normal"

\* C38: a step that navigates the history leaves the buffer as it is; the
\* buffer changes only by a TAB, a backspace or the byte typed being
\* appended; and the line returned on submit is the buffer.
C38_NavigationLeavesTheBuffer ==
  [][\A b \in InputKeys :
       Typed(b) =>
         /\ (Navigates(b) \/ (Continues(b) /\ b \in {SEQ.up, SEQ.down})) =>
              ed_input' = ed_input
         /\ ed_input' # ed_input =>
              b \in {KEY.tab, KEY.bs} \/ ed_input' = Append(ed_input, b)
         /\ (b = KEY.lf /\ ed_result'.kind = "Some") =>
              as_bytes(ed_result'.line) = ed_input]_vars

\* C38's case: with a history that is not empty, e and then the up arrow
\* were typed, so that a history entry is on the screen, and the line was
\* submitted: what is returned is e
C38_Witness ==
  /\ ed_pc = "returned" /\ ed_keys = 5 /\ ed_buf = KEY.lf
  /\ hist_stack # <<>> /\ hn.pointer = hn.size - 1
  /\ ed_result = [kind |-> "Some", line |-> <<CH.e>>]

(***************************************************************************)
(* Claims about the main loop, checked under SpecShell.                    *)
(***************************************************************************)
\* the tokens of the line that was read, and whether some stage of it ends
\* with a redirection operator
TokensOfInput == ScanEnd(ScanFrom(ScanInit, Trim(input)))
DanglingOperator ==
  \E i \in 1..Len(split_vec_by_delimiter(TokensOfInput, LIT.bar)) :
    LET g == split_vec_by_delimiter(TokensOfInput, LIT.bar)[i]
    IN  IsRedirOp(g[Len(g)])
LineWasRead == pc \notin {"prompt", "parse", "failed"} /\ Trim(input) # <<>>

\* C1: when a redirection operator is the last token of a stage, lexing
\* reports an error, no stage of the line is executed and the shell goes on
\* to the next prompt; the process does not terminate because of the line.
C1_DanglingOperatorIsLexError ==
  (LineWasRead /\ DanglingOperator) =>
    (pc = "done" /\ ran = <<>> /\ tty_err # <<>>)

\* stage k of the current line ran a built-in that emitted text on stdout
\* and nothing on stderr
BuiltinText(k) ==
  /\ ran[k].cmd \in {"Echo", "Type", "Pwd"}
  /\ ran[k].out.stderr = None
  /\ ran[k].out.stdout # None
  /\ Unwrap(ran[k].out.stdout).kind = "Stdout"
TextOf(k) == Unwrap(ran[k].out.stdout).data

\* C3: in A | B with A a built-in that emits text T on stdout with no stdout
\* redirection and B an external command, B's stdin receives exactly the
\* bytes of T, all of them, and is then closed.
C3_ChildStdinReceivesAllOfT ==
  \A k \in 1..(Len(ran) - 1) :
    (/\ BuiltinText(k) /\ ran[k].redirection.kind # "Stdout"
     /\ ran[k + 1].cmd = "Executable" /\ ran[k + 1].spawned) =>
      (ran[k + 1].delivered = as_bytes(TextOf(k)) /\ ran[k + 1].closed)

\* C4: for every stage k > 0, if stage k-1 produced only stderr output or
\* none (an unknown command and a failed spawn included), stage k receives
\* Inherit; and what stage k receives never comes from a stage before k-1.
C4_OnlyThePreviousStageFeedsAStage ==
  \A k \in 2..Len(ran) :
    ran[k].called =>
      /\ (ran[k - 1].out.stdout = None => ran[k].input = None)
      /\ (ran[k].input # None => Unwrap(ran[k].input).from = k - 1)

\* no stage of the line but stage k names the file of stage k's redirection
OnlyStageOnFile(k) ==
  \A j \in 1..Len(cmds_list) :
    j # k => cmds_list[j].redirection.file_path # ran[k].redirection.file_path

\* C5: in A | B with A a built-in that emits text T and has a Stdout
\* redirection to a file f that can be opened, A's output is not piped: B
\* receives Inherit, and f holds T: f is what it was before A, then T at
\* its end (T alone when f was missing or empty), right after A and, when no
\* other stage of the line names f, at every later point of the pipeline.
C5_StdoutRedirectionCancelsPiping ==
  \A k \in 1..Len(ran) :
    (/\ BuiltinText(k) /\ ran[k].redirection.kind = "Stdout" /\ ran[k].is_piped
     /\ ran[k].pre_file.kind # "dir") =>
      /\ ran[k].stashed = None
      /\ (k < Len(ran) /\ ran[k + 1].called) => ran[k + 1].input = None
      /\ (k = Len(ran) \/ OnlyStageOnFile(k)) =>
           LET f == FileAt(fs, ran[k].redirection.file_path)
               T == as_bytes(TextOf(k))
           IN  /\ f.kind = "file"
               /\ IsPrefix(ran[k].pre_file.data, f.data)
               /\ IsSuffix(T, f.data)
               /\ ran[k].pre_file.data = <<>> => f.data = T

\* C5's case: the pipeline `echo ab > f | c` has run to its end, c was
\* spawned, and f, missing before, holds ab
C5_Witness ==
  /\ pc = "done" /\ Len(ran) = 2
  /\ BuiltinText(1) /\ ran[1].redirection = RedirStdout(PathF, FALSE) /\ ran[1].is_piped
  /\ ran[1].pre_file.kind = "missing"
  /\ ran[2].cmd = "Executable" /\ ran[2].spawned /\ ran[2].input = None
  /\ FileAt(fs, PathF).data = <<CH.a, CH.b>>

\* two adjacent "|" tokens in the line that was read
AdjacentBars ==
  \E i \in 1..(Len(TokensOfInput) - 1) :
    TokensOfInput[i] = LIT.bar /\ TokensOfInput[i + 1] = LIT.bar

\* C11: when the tokens of a line hold two adjacent "|", the lexer reports
\* an error and the line is discarded: no stage of it is executed, and the
\* line ends with an error message and nothing else.
C11_EmptyStageIsLexError ==
  (LineWasRead /\ AdjacentBars) =>
    (ran = <<>> /\ (pc = "done" => tty_err # <<>>))

\* C10: for every non-blank line on which the lexer reports no error, the
\* pipeline handed to the executor has at least one stage and the argv of
\* every stage has at least one element.
C10_PipelineAndArgvNonEmpty ==
  (LineWasRead /\ ~DanglingOperator) =>
    /\ Len(cmds_list) >= 1
    /\ \A i \in 1..Len(cmds_list) : cmds_list[i].args # <<>>

\* C31: the output of a stage is stashed as the next stage's input exactly
\* when its stdout is present, its stderr is absent, the stage is not the
\* last one and its redirection is None or Stderr, and then piped_stdin
\* carries the output of that stage; otherwise the output is handed with the
\* redirection to the writer and piped_stdin carries nothing of that stage;
\* the output of the last stage is always handed to the writer.
C31_OneDestinationPerStage ==
  \A k \in 1..Len(ran) :
    LET piped == /\ ran[k].out.stdout # None /\ ran[k].out.stderr = None
                 /\ ran[k].is_piped
                 /\ ran[k].redirection.kind \in {"None", "Stderr"}
        carried == IsSome(ran[k].stashed) /\ Unwrap(ran[k].stashed).from = k
    IN  /\ ran[k].arm = (IF piped THEN "stash" ELSE "writer")
        /\ carried <=> piped
        /\ ran[k].is_piped <=> k < Len(cmds_list)
        /\ k = Len(cmds_list) => ran[k].arm = "writer"

\* C31's case: `echo ab | echo ab > f | c` has run to its end: the first
\* echo was stashed, the second, not the last stage either, went to the
\* writer with its redirection, and so did the output of c
C31_Witness ==
  /\ pc = "done" /\ Len(ran) = 3
  /\ ran[1].arm = "stash" /\ ran[1].stashed = Some(CmdInput("String", <<CH.a, CH.b>>, 1))
  /\ ran[2].arm = "writer" /\ ran[2].is_piped /\ ran[2].stashed = None
  /\ ran[2].redirection = RedirStdout(PathF, FALSE)
  /\ ran[3].arm = "writer" /\ ran[3].cmd = "Executable" /\ ran[3].spawned

\* C27: once a non-empty line has been submitted at the prompt, the history
\* is not empty and its last entry is that line, so that history-previous at
\* the next prompt returns it.
C27_SubmittedLineIsInHistory ==
  LineWasRead =>
    /\ hist_stack # <<>>
    /\ hist_stack[Len(hist_stack)] \in {input, Trim(input)}
    /\ previous(from_size(Len(hist_stack)), hist_stack).result
         \in {Some(input), Some(Trim(input))}

\* C28: when the text of a built-in is passed down a pipe to a child that
\* was spawned, the bytes the child gets on its stdin are the text followed
\* by a newline, one byte more than the text (5 bytes for the word pipe).
C28_PipedTextEndsWithNewline ==
  \A i \in 1..Len(ran) :
    (/\ ran[i].cmd = "Executable" /\ ran[i].spawned
     /\ IsSome(ran[i].input) /\ Unwrap(ran[i].input).kind = "String") =>
      ran[i].delivered = as_bytes(Unwrap(ran[i].input).data) \o <<LF>>

(***************************************************************************)
(* Claims about the writer, checked under SpecWriter.                      *)
(***************************************************************************)
\* the world call i of wr_calls ended in
PostWorld(i) == IF i = Len(wr_calls) THEN World ELSE wr_calls[i + 1].pre

\* call i wrote stdout (stderr) data to a writer whose file can be opened
\* call i is a stdout (stderr) write and the path can be opened
StdoutCall(i) ==
  /\ wr_calls[i].op \in {"output", "output_string"}
  /\ CanOpen(wr_calls[i].pre.fs, PathF)
StderrCall(i) ==
  /\ wr_calls[i].op \in {"output_error", "output_error_string"}
  /\ CanOpen(wr_calls[i].pre.fs, PathF)

\* C6: a stdout write of D (bytes or text) under Stdout{path, append: false}
\* creates the file if it is missing and truncates it: afterwards the file
\* holds exactly D, whatever it held before (stated for every non-empty D
\* and a path that can be opened).
C6_StdoutTruncateLeavesExactlyD ==
  \A i \in 1..Len(wr_calls) :
    (/\ wr_redirection = RedirStdout(PathF, FALSE) /\ StdoutCall(i)
     /\ wr_calls[i].data # <<>>) =>
      FileAt(PostWorld(i).fs, PathF) = [kind |-> "file", data |-> wr_calls[i].data]

\* C7: a stdout write of D under Stdout{path, append: true} leaves exactly D
\* in a file that was missing or empty, and C, one line feed, D in a file
\* that held the non-empty content C (stated for a path that can be opened).
C7_StdoutAppendKeepsAndSeparates ==
  \A i \in 1..Len(wr_calls) :
    (wr_redirection = RedirStdout(PathF, TRUE) /\ StdoutCall(i)) =>
      LET old == FileAt(wr_calls[i].pre.fs, PathF).data
          new == FileAt(PostWorld(i).fs, PathF)
      IN  /\ new.kind = "file"
          /\ new.data = IF old = <<>> THEN wr_calls[i].data
                        ELSE old \o <<LF>> \o wr_calls[i].data

\* C8: with Redirection::None every non-empty stderr payload, passed as
\* bytes (output_error) or as text (output_error_string), is written to the
\* terminal's stderr.
C8_StderrReachesTerminal ==
  \A i \in 1..Len(wr_calls) :
    (/\ wr_redirection = RedirNone
     /\ wr_calls[i].op \in {"output_error", "output_error_string"}
     /\ wr_calls[i].data # <<>>) =>
      IsPrefix(wr_calls[i].pre.err \o as_bytes(from_utf8_lossy(wr_calls[i].data)),
               PostWorld(i).err)

\* C9: a stderr write of D under Stderr{path, append} follows the rules of
\* stdout-to-file: with append false the file afterwards holds exactly D,
\* with append true it holds the previous content and then D; in both cases
\* nothing goes to the terminal (stated for every non-empty D and a path that
\* can be opened).
C9_StderrFileRules ==
  \A i \in 1..Len(wr_calls) :
    (/\ wr_redirection.kind = "Stderr" /\ StderrCall(i)
     /\ wr_calls[i].data # <<>>) =>
      LET old == FileAt(wr_calls[i].pre.fs, PathF).data
          new == FileAt(PostWorld(i).fs, PathF)
      IN  /\ new.kind = "file"
          /\ new.data = IF wr_redirection.append THEN old \o wr_calls[i].data
                        ELSE wr_calls[i].data
          /\ PostWorld(i).out = wr_calls[i].pre.out
          /\ PostWorld(i).err = wr_calls[i].pre.err

====
